---- MODULE Spec2Model ----
(***************************************************************************)
(* Model of the jeu-fa-api real-time layer.                                *)
(*                                                                         *)
(*  Part 1: the WebSocket matchmaking queue                                *)
(*          (src/app/routers/websocket.py).                                *)
(*  Part 2: the turn/phase handlers of a game session                      *)
(*          (src/app/routers/game_actions.py).                             *)
(*  Part 3: the outcome engine (src/app/game_logic/strategy_logic.py).     *)
(*  Part 4: the HTTP matchmaking endpoints                                 *)
(*          (src/app/routers/matchmaking.py).                              *)
(*  Part 5: the connection registry (src/app/websocket_manager.py) and the *)
(*          lifecycle of the three WebSocket endpoint handlers.            *)
(*  Part 6: next-phase requests served by several worker processes         *)
(*          (src/app/main.py, src/app/routers/game_actions.py).            *)
(*  Part 7: the card service (src/app/game_logic/fadu_logic.py).           *)
(*                                                                         *)
(* Spec runs the matchmaking handlers; GameSpec runs the game handlers on  *)
(* one stored session; NewGameSpec runs them on a session just created;    *)
(* EngineSpec applies the functions of the outcome engine to drawn inputs; *)
(* HttpSpec runs the HTTP matchmaking endpoints; RegistrySpec runs the     *)
(* endpoint handlers and the senders on the connection registry;           *)
(* WorkersSpec runs next-phase requests of the two players in two worker   *)
(* processes; TurnsSpec calculates the turns of one session one after the  *)
(* other; FaduSpec draws cards from the card service.                      *)
(***************************************************************************)
EXTENDS Integers, Sequences, FiniteSets, TLC

(***************************************************************************)
(* Bounds of the model.                                                    *)
(***************************************************************************)
NumPlayers == 3
NumChannels == 2
MaxJoins == 4
MaxMatches == 1
NumSockets == 3

(***************************************************************************)
(* Part 1 -- matchmaking queue, websocket.py                               *)
(***************************************************************************)
VARIABLES
    matchmaking_queue,  \* deque of (player_id, websocket, joined_at)
    players_in_queue,   \* set of player ids
    queue_metadata,     \* dict player_id -> {websocket, joined_at, player_name}
    join_order,         \* the queued player ids by increasing joined_at
    games,              \* DBGame rows made by create_new_game, in creation order
    chan,               \* per websocket: "new", "open", "matching", "closed"
    chan_player,        \* per websocket: the player_id query parameter (0 = None)
    sent,               \* the messages <<websocket, status>> sent by the last handler step
    joins               \* number of join_queue requests accepted so far

qvars == <<matchmaking_queue, players_in_queue, queue_metadata, join_order,
           games, chan, chan_player, sent, joins>>

\* the game session of Part 2
VARIABLES
    game,          \* the DBGame row
    current_pfh,   \* DBPlayer.current_pfh of player1 and player2
    turn_results,  \* TurnResult rows added by process_battle_phase
    response       \* the last request and its HTTP answer

gvars == <<game, current_pfh, turn_results, response>>

\* one call of a function of the outcome engine of Part 3
VARIABLES
    sl_call,       \* the function called and its arguments
    sl_result      \* what the call returned (done = FALSE before it ran)

svars == <<sl_call, sl_result>>

\* the module globals of matchmaking.py and the tables its handlers use
VARIABLES
    http_matchmaking_queue,  \* matchmaking.py: matchmaking_queue, list of ids
    pending_matches,         \* dict user_id -> match info kept for polling
    http_games,              \* DBGame rows committed by join_matchmaking
    player_rows,             \* ids of the rows of the players table
    http_response            \* the last request and its answer

hvars == <<http_matchmaking_queue, pending_matches, http_games, player_rows,
           http_response>>

\* the connection registry of Part 5
VARIABLES
    websocket_manager,  \* the WebSocketManager instance: its four collections
    handler,            \* per WebSocket: "new", "running", "done" (endpoint handler)
    transport,          \* per WebSocket: "open", or "closed" (send_text raises)
    mgr_call            \* the last call on the manager and what it returned

rvars == <<websocket_manager, handler, transport, mgr_call>>

\* the next-phase requests in flight of Part 6
VARIABLES
    loaded         \* per player: the DBGame row its running request has read

cvars == <<loaded>>

vars == <<qvars, gvars, svars, hvars, rvars, cvars>>
\* what the handlers of one part leave alone
not_qvars == <<gvars, svars, hvars, rvars, cvars>>
not_gvars == <<qvars, svars, hvars, rvars, cvars>>
not_svars == <<qvars, gvars, hvars, rvars, cvars>>
not_hvars == <<qvars, gvars, svars, rvars, cvars>>
not_rvars == <<qvars, gvars, svars, hvars, cvars>>

\* the WebSocket objects of Part 5
Sockets == 1..NumSockets

\* ids of the rows of the players table
PlayerIds == 1..NumPlayers
\* the websocket objects
Channels == 1..NumChannels
\* a player_id that is absent from the message / query string (None, falsy)
NoPlayer == 0
\* a player_id that has no row in the players table
UnknownPlayer == NumPlayers + 1

QueueIds(q) == {q[i].pid : i \in 1..Len(q)}

(* websocket.py:397  joined_at = datetime.utcnow().  The handlers store the *)
(* timestamps and never compare them; what they fix is the order in which  *)
(* the queued entries were accepted, kept in join_order: an accepted join  *)
(* puts its player last, an entry that leaves the queue is taken out.      *)
RECURSIVE OrderWithout(_, _)
OrderWithout(o, pid) ==
    IF o = <<>> THEN <<>>
    ELSE IF Head(o) = pid THEN OrderWithout(Tail(o), pid)
         ELSE <<Head(o)>> \o OrderWithout(Tail(o), pid)

\* websocket.py:373  `player_id in players_in_queue`
AlreadyInQueue_never(pid) == FALSE
AlreadyInQueue_always(pid) == TRUE
AlreadyInQueue(pid) == pid \in players_in_queue

\* websocket.py:390-391  the players row exists
PlayerExists(pid) == pid \in PlayerIds

\* websocket.py:614-619  rebuild the deque without player_id, order kept
RECURSIVE WithoutPlayer(_, _)
WithoutPlayer(q, pid) ==
    IF q = <<>> THEN <<>>
    ELSE IF Head(q).pid = pid THEN WithoutPlayer(Tail(q), pid)
         ELSE <<Head(q)>> \o WithoutPlayer(Tail(q), pid)

\* dict helpers for queue_metadata
MetaPut(md, pid, rec) ==
    [p \in (DOMAIN md) \cup {pid} |-> IF p = pid THEN rec ELSE md[p]]
MetaPop(md, pid) == [p \in (DOMAIN md) \ {pid} |-> md[p]]

\* websocket.py:501-502  the two popleft() calls
PoppedPair_last(q) == <<q[1], q[Len(q)]>>
PoppedPair(q) == <<q[1], q[2]>>
AfterPop(q) == SubSeq(q, 3, Len(q))

\* websocket.py:553-554  the two appendleft() calls of the except branch
Reinserted(q, e1, e2) == <<e2>> \o (<<e1>> \o q)

\* websocket_manager.py:120-128  send_personal_message: deliver to an open
\* channel; a closed channel only loses the message
SendTo(s, w, status) ==
    IF chan[w] \in {"open", "matching"} THEN s \cup {<<w, status>>} ELSE s

(* websocket.py:497-578  try_match_players.  created = create_new_game      *)
(* returned an id.  The notifications it sends are MatchSent.              *)
try_match_players(created) ==
    IF Len(matchmaking_queue) >= 2
    THEN LET pp == PoppedPair(matchmaking_queue)
             e1 == pp[1]
             e2 == pp[2]
             rest == AfterPop(matchmaking_queue)
             md == MetaPop(MetaPop(queue_metadata, e1.pid), e2.pid)
         IN  IF created
             THEN /\ matchmaking_queue' = rest
                  /\ players_in_queue' = (players_in_queue \ {e1.pid}) \ {e2.pid}
                  /\ queue_metadata' = md
                  /\ join_order' = OrderWithout(OrderWithout(join_order, e1.pid),
                                                e2.pid)
                  /\ games' = Append(games, [player1_id |-> e1.pid,
                                             player2_id |-> e2.pid,
                                             is_completed |-> FALSE])
                \* create_new_game raised: both entries go back (:553-556),
                \* then the metadata restore reads player1_name, which is
                \* unbound (assigned at :515, after the failed call), so the
                \* handler leaves by UnboundLocalError before :573-578
             ELSE /\ matchmaking_queue' = Reinserted(rest, e1, e2)
                  /\ players_in_queue' =
                         (((players_in_queue \ {e1.pid}) \ {e2.pid})
                             \cup {e1.pid}) \cup {e2.pid}
                  /\ queue_metadata' = md
                  /\ join_order' = join_order
                  /\ games' = games
    ELSE UNCHANGED <<matchmaking_queue, players_in_queue, queue_metadata,
                     join_order, games>>

\* websocket.py:545-546  the match_found notifications of a successful pairing
MatchSent(created, s) ==
    IF Len(matchmaking_queue) >= 2 /\ created
    THEN LET pp == PoppedPair(matchmaking_queue)
         IN  SendTo(SendTo(s, pp[1].ws, "match_found"), pp[2].ws, "match_found")
    ELSE s

\* the player_id query parameter of channel w: the clients of the model are
\* players who open a channel with their own id, and one client (the last
\* channel) that opens it without player_id
ConnectIds(w) == IF w < NumChannels /\ w \in PlayerIds THEN {w} ELSE {NoPlayer}

\* the player_id a client puts in its messages: a player's channel sends the
\* player's id, the channel opened without player_id sends any id, none, or
\* one that has no players row
SendIds(w) ==
    IF chan_player[w] = NoPlayer
    THEN PlayerIds \cup {NoPlayer, UnknownPlayer}
    ELSE {chan_player[w]}

\* an exception leaves try_match_players
MatchRaises(created) == Len(matchmaking_queue) >= 2 /\ ~created

\* websocket.py:607-619  remove_player_from_queue
remove_player_from_queue(pid) ==
    IF pid \in players_in_queue
    THEN /\ players_in_queue' = players_in_queue \ {pid}
         /\ queue_metadata' = MetaPop(queue_metadata, pid)
         /\ matchmaking_queue' = WithoutPlayer(matchmaking_queue, pid)
         /\ join_order' = OrderWithout(join_order, pid)
    ELSE UNCHANGED <<matchmaking_queue, players_in_queue, queue_metadata,
                     join_order>>

\* websocket.py:22-25 and the state before any connection
QInit ==
    /\ matchmaking_queue = <<>>
    /\ players_in_queue = {}
    /\ queue_metadata = <<>>
    /\ join_order = <<>>
    /\ games = <<>>
    /\ chan = [w \in Channels |-> "new"]
    /\ chan_player = [w \in Channels |-> NoPlayer]
    /\ sent = {}
    /\ joins = 0

\* websocket.py:226-248  matchmaking_websocket accepts a connection.  A
\* channel that is not connected takes no part in anything, so the clients
\* are taken to connect in the order of their index.
Connect(w, p) ==
    /\ chan[w] = "new"
    /\ \A v \in Channels : v < w => chan[v] # "new"
    /\ chan' = [chan EXCEPT ![w] = "open"]
    /\ chan_player' = [chan_player EXCEPT ![w] = p]
    /\ sent' = {<<w, "connected">>}
    /\ UNCHANGED <<matchmaking_queue, players_in_queue, queue_metadata,
                   join_order, games, joins>>
    /\ UNCHANGED not_qvars

\* websocket.py:362-429  join_queue up to the await that sends the ack
JoinQueue(w, pid) ==
    /\ chan[w] = "open"
    /\ IF pid = NoPlayer
       THEN /\ sent' = {<<w, "error">>}
            /\ UNCHANGED <<matchmaking_queue, players_in_queue, queue_metadata,
                           join_order, chan, joins>>
       ELSE IF AlreadyInQueue(pid)
       THEN /\ sent' = {<<w, "already_in_queue">>}
            /\ UNCHANGED <<matchmaking_queue, players_in_queue, queue_metadata,
                           join_order, chan, joins>>
       ELSE IF ~PlayerExists(pid)
       THEN /\ sent' = {<<w, "error">>}
            /\ UNCHANGED <<matchmaking_queue, players_in_queue, queue_metadata,
                           join_order, chan, joins>>
       ELSE /\ joins < MaxJoins
            /\ joins' = joins + 1
            /\ players_in_queue' = players_in_queue \cup {pid}
            /\ matchmaking_queue' = Append(matchmaking_queue,
                                           [pid |-> pid, ws |-> w])
            /\ queue_metadata' = MetaPut(queue_metadata, pid, [websocket |-> w])
            /\ join_order' = Append(join_order, pid)
            /\ sent' = {<<w, "joined">>}
            /\ chan' = [chan EXCEPT ![w] = "matching"]
    /\ UNCHANGED <<games, chan_player>>
    /\ UNCHANGED not_qvars

\* websocket.py:433-434  the join handler resumes and calls try_match_players;
\* an exception is answered by matchmaking_websocket (:269-275)
TryMatch(w, created) ==
    /\ chan[w] = "matching"
    /\ try_match_players(created)
    /\ sent' = IF MatchRaises(created)
               THEN {<<w, "error">>}
               ELSE MatchSent(created, {})
    /\ chan' = [chan EXCEPT ![w] = "open"]
    /\ UNCHANGED <<chan_player, joins>>
    /\ UNCHANGED not_qvars

\* websocket.py:436-451  leave_queue
LeaveQueue(w, pid) ==
    /\ chan[w] = "open"
    /\ IF pid # NoPlayer /\ pid \in players_in_queue
       THEN /\ remove_player_from_queue(pid)
            /\ sent' = {<<w, "left">>}
       ELSE /\ sent' = {}
            /\ UNCHANGED <<matchmaking_queue, players_in_queue, queue_metadata,
                           join_order>>
    /\ UNCHANGED <<games, chan, chan_player, joins>>
    /\ UNCHANGED not_qvars

\* websocket.py:621-625  cleanup_player_from_queue
cleanup_player_from_queue(pid) ==
    IF pid # NoPlayer /\ pid \in players_in_queue
    THEN remove_player_from_queue(pid)
    ELSE UNCHANGED <<matchmaking_queue, players_in_queue, queue_metadata,
                     join_order>>

\* websocket.py:259-262, 279-281  the peer is gone: receive_text raises
\* WebSocketDisconnect, the handler cleans up and ends
Disconnect(w) ==
    /\ chan[w] = "open"
    /\ cleanup_player_from_queue(chan_player[w])
    /\ chan' = [chan EXCEPT ![w] = "closed"]
    /\ sent' = {}
    /\ UNCHANGED <<games, chan_player, joins>>
    /\ UNCHANGED not_qvars

\* websocket.py:892-899  debug_force_match
ForceMatch(created) ==
    /\ Len(matchmaking_queue) >= 2
    /\ try_match_players(created)
    /\ sent' = MatchSent(created, {})
    /\ UNCHANGED <<chan, chan_player, joins>>
    /\ UNCHANGED not_qvars

Next ==
    \/ \E w \in Channels : \E p \in ConnectIds(w) : Connect(w, p)
    \/ \E w \in Channels : \E pid \in SendIds(w) : JoinQueue(w, pid)
    \/ \E w \in Channels, created \in BOOLEAN : TryMatch(w, created)
    \/ \E w \in Channels : \E pid \in SendIds(w) \ {UnknownPlayer} :
          LeaveQueue(w, pid)
    \/ \E w \in Channels : Disconnect(w)
    \/ \E created \in BOOLEAN : ForceMatch(created)

(***************************************************************************)
(* Part 2 -- one game session, game_actions.py                             *)
(*                                                                         *)
(* game_actions.py is written against DBGame / DBPlayer rows that carry    *)
(* current_phase, current_player, the per-turn fields and current_pfh      *)
(* (the fields of schemas.GameState / PlayerInfo).  Every request loads    *)
(* the row from the store, so a behaviour starts from a stored row.        *)
(* The variables of the session are game, current_pfh, turn_results and    *)
(* response, declared with the variables of Part 1.                        *)
(***************************************************************************)
\* game_actions.py:447 / config.py:43-48  settings.MAX_GAME_TURNS
MAX_TURNS == 20
\* game_actions.py:446 / config.py:56-60  settings.SACRIFICE_COST
MIN_PFH_FOR_SACRIFICE == 14
\* strategy_logic.py:262
SACRIFICE_COST == 14

PlayerTypes == {"player1", "player2"}
\* the authenticated users that send requests: the two players and a third user
Users == {"player1", "player2", "outsider"}
\* models.py:10-13  Strategy
Strategies == {"V", "C", "G"}
\* fadu_data.py:9-14  pfh of the STANDARD_FADUS rows (a card is held by its pfh)
StandardCards == {64, 60, 56}
\* fadu_data.py:16-21  pfh of the SACRIFICE_FADUS rows
SacrificeCards == {64, 60, 56}
\* no card: player{1,2}_card is None
NoCard == 0

Other(p) == IF p = "player1" THEN "player2" ELSE "player1"

\* game_actions.py:450-456  get_player_type
get_player_type(user) == IF user \in PlayerTypes THEN user ELSE "None"

\* game_actions.py:458-474  verify_game_status: "ok" or the error it raises
verify_game_status_open(g, user) ==
    IF get_player_type(user) = "None" THEN "not_participant" ELSE "ok"
verify_game_status(g, user) ==
    IF g.is_completed THEN "completed"
    ELSE IF get_player_type(user) = "None" THEN "not_participant"
    ELSE "ok"

\* game_actions.py:476-485  can_transition_to_next_phase
can_transition_always(g, phase) == TRUE
can_transition_to_next_phase(g, phase) ==
    IF phase = "draw"
    THEN g.card["player1"] # NoCard /\ g.card["player2"] # NoCard
    ELSE IF phase = "strategy"
    THEN g.strategy["player1"] # "None" /\ g.strategy["player2"] # "None"
    ELSE IF phase = "sacrifice"
    THEN g.sacrifice["player1"] # "None" /\ g.sacrifice["player2"] # "None"
    ELSE FALSE

\* game_actions.py:555-568  reset_turn_data
reset_turn_data(g) ==
    [g EXCEPT !.card = [p \in PlayerTypes |-> NoCard],
              !.strategy = [p \in PlayerTypes |-> "None"],
              !.sacrifice = [p \in PlayerTypes |-> "None"],
              !.sacrifice_card = [p \in PlayerTypes |-> NoCard]]

Resp(op, user, status, detail) ==
    [op |-> op, user |-> user, status |-> status, detail |-> detail]

\* an HTTPException leaves the handler: nothing was written
Reject(op, user, status, detail) ==
    /\ response' = Resp(op, user, status, detail)
    /\ UNCHANGED <<game, current_pfh, turn_results>>

StatusOf(err) == IF err = "not_participant" THEN 403 ELSE 400

\* game_actions.py:713-719  already_drawn
AlreadyDrawn_never(g, pt, is_sacrifice) == FALSE
AlreadyDrawn(g, pt, is_sacrifice) ==
    (IF is_sacrifice THEN g.sacrifice_card[pt] ELSE g.card[pt]) # NoCard

\* game_actions.py:885  decision.sacrifice and player.current_pfh < MIN_PFH_FOR_SACRIFICE
InsufficientPfh_never(sacrifice, pfh) == FALSE
InsufficientPfh(sacrifice, pfh) == sacrifice /\ pfh < MIN_PFH_FOR_SACRIFICE

\* game_actions.py:698, 794, 867  the phase a handler does not work in
WrongPhase_never(phase, required) == FALSE
WrongPhase(phase, required) == phase # required

\* game_actions.py:679-772  draw_card; card = what fadu_service.draw_card
\* returned (NoCard = None)
draw_card(user, is_sacrifice, card) ==
    LET op == IF is_sacrifice THEN "draw_sacrifice" ELSE "draw"
        v == verify_game_status(game, user)
        pt == get_player_type(user)
    IN  IF v # "ok" THEN Reject(op, user, StatusOf(v), v)
        ELSE IF game.current_player # pt THEN Reject(op, user, 400, "not_your_turn")
        ELSE IF WrongPhase(game.current_phase, "draw")
             THEN Reject(op, user, 400, "wrong_phase")
        ELSE IF is_sacrifice /\ game.card[pt] = NoCard
             THEN Reject(op, user, 400, "no_main_card")
        ELSE IF AlreadyDrawn(game, pt, is_sacrifice)
             THEN Reject(op, user, 400, "already_drawn")
        ELSE IF card = NoCard THEN Reject(op, user, 404, "no_card")
        ELSE /\ game' = IF is_sacrifice
                        THEN [game EXCEPT !.sacrifice_card[pt] = card]
                        ELSE [game EXCEPT !.card[pt] = card]
             /\ response' = Resp(op, user, 200, "ok")
             /\ UNCHANGED <<current_pfh, turn_results>>

\* game_actions.py:774-845  choose_strategy (the request body is a
\* schemas.StrategyChoice, so the strategy is one of Strategy)
choose_strategy(user, strategy) ==
    LET v == verify_game_status(game, user)
        pt == get_player_type(user)
    IN  IF v # "ok" THEN Reject("strategy", user, StatusOf(v), v)
        ELSE IF game.current_player # pt
             THEN Reject("strategy", user, 400, "not_your_turn")
        ELSE IF WrongPhase(game.current_phase, "strategy")
             THEN Reject("strategy", user, 400, "wrong_phase")
        ELSE IF game.card[pt] = NoCard
             THEN Reject("strategy", user, 400, "no_main_card")
        ELSE IF game.strategy[pt] # "None"
             THEN Reject("strategy", user, 400, "already_chosen")
        ELSE /\ game' = [game EXCEPT !.strategy[pt] = strategy]
             /\ response' = Resp("strategy", user, 200, "ok")
             /\ UNCHANGED <<current_pfh, turn_results>>

\* game_actions.py:847-917  decide_sacrifice
decide_sacrifice(user, sacrifice) ==
    LET v == verify_game_status(game, user)
        pt == get_player_type(user)
    IN  IF v # "ok" THEN Reject("sacrifice", user, StatusOf(v), v)
        ELSE IF game.current_player # pt
             THEN Reject("sacrifice", user, 400, "not_your_turn")
        ELSE IF WrongPhase(game.current_phase, "sacrifice")
             THEN Reject("sacrifice", user, 400, "wrong_phase")
        ELSE IF game.sacrifice[pt] # "None"
             THEN Reject("sacrifice", user, 400, "already_decided")
        ELSE IF InsufficientPfh(sacrifice, current_pfh[pt])
             THEN Reject("sacrifice", user, 400, "insufficient_pfh")
        ELSE /\ game' = [game EXCEPT !.sacrifice[pt] =
                            IF sacrifice THEN "True" ELSE "False"]
             /\ response' = Resp("sacrifice", user, 200, "ok")
             /\ UNCHANGED <<current_pfh, turn_results>>

(***************************************************************************)
(* Part 3 -- the outcome engine, strategy_logic.py (its payoff matrix is   *)
(* defined here, ahead of the battle of Part 2 that reads the gains)       *)
(***************************************************************************)
(***************************************************************************)
(* Python float arithmetic (IEEE 754 binary64, round to nearest, ties to   *)
(* even), as strategy_logic.py uses it in the payoff matrix.  A float is   *)
(* held as sign, magnitude and binary exponent: value = +-m * 2^e, with m  *)
(* a natural number of at most 53 significant bits kept as a sequence of   *)
(* 15-bit limbs, least significant first (<<>> is 0).  The values of the   *)
(* payoff matrix stay far from the overflow and subnormal ranges.          *)
(***************************************************************************)
LimbBits == 15
Base == 32768
MantissaBits == 53

Min(x, y) == IF x <= y THEN x ELSE y

\* drop the most significant limbs that are 0
RECURSIVE Trim(_)
Trim(n) ==
    IF n = <<>> THEN <<>>
    ELSE IF n[Len(n)] = 0 THEN Trim(SubSeq(n, 1, Len(n) - 1))
    ELSE n

RECURSIVE BigOf(_)
BigOf(k) == IF k = 0 THEN <<>> ELSE <<k % Base>> \o BigOf(k \div Base)

RECURSIVE BigToInt(_)
BigToInt(n) == IF n = <<>> THEN 0 ELSE Head(n) + Base * BigToInt(Tail(n))

Limb(n, i) == IF i <= Len(n) THEN n[i] ELSE 0

RECURSIVE AddFrom(_, _, _, _)
AddFrom(x, y, i, carry) ==
    IF i > Len(x) /\ i > Len(y)
    THEN IF carry = 0 THEN <<>> ELSE <<carry>>
    ELSE LET s == Limb(x, i) + Limb(y, i) + carry
         IN  <<s % Base>> \o AddFrom(x, y, i + 1, s \div Base)
BigAdd(x, y) == AddFrom(x, y, 1, 0)

\* x - y for x >= y
RECURSIVE SubFrom(_, _, _, _)
SubFrom(x, y, i, borrow) ==
    IF i > Len(x) THEN <<>>
    ELSE LET s == Limb(x, i) - Limb(y, i) - borrow
         IN  IF s < 0 THEN <<s + Base>> \o SubFrom(x, y, i + 1, 1)
             ELSE <<s>> \o SubFrom(x, y, i + 1, 0)
BigSub(x, y) == Trim(SubFrom(x, y, 1, 0))

\* x < y, both without leading zero limbs
RECURSIVE LessFrom(_, _, _)
LessFrom(x, y, i) ==
    IF i = 0 THEN FALSE
    ELSE IF x[i] # y[i] THEN x[i] < y[i]
    ELSE LessFrom(x, y, i - 1)
BigLess(x, y) ==
    IF Len(x) # Len(y) THEN Len(x) < Len(y) ELSE LessFrom(x, y, Len(x))

\* x * k for one limb k
RECURSIVE MulLimbFrom(_, _, _, _)
MulLimbFrom(x, k, i, carry) ==
    IF i > Len(x)
    THEN IF carry = 0 THEN <<>> ELSE <<carry>>
    ELSE LET s == x[i] * k + carry
         IN  <<s % Base>> \o MulLimbFrom(x, k, i + 1, s \div Base)
BigMulLimb(x, k) == IF k = 0 THEN <<>> ELSE MulLimbFrom(x, k, 1, 0)

RECURSIVE BigMul(_, _)
BigMul(x, y) ==
    IF x = <<>> \/ y = <<>> THEN <<>>
    ELSE BigAdd(BigMulLimb(x, Head(y)),
                IF Len(y) = 1 THEN <<>> ELSE <<0>> \o BigMul(x, Tail(y)))

\* quotient and remainder of x by a small k, from the top limb down
RECURSIVE DivFrom(_, _, _, _)
DivFrom(x, k, i, rem) ==
    IF i = 0 THEN [quot |-> <<>>, rem |-> rem]
    ELSE LET cur == rem * Base + x[i]
             low == DivFrom(x, k, i - 1, cur % k)
         IN  [quot |-> low.quot \o <<cur \div k>>, rem |-> low.rem]
BigDivSmall(x, k) ==
    LET r == DivFrom(x, k, Len(x), 0)
    IN  [quot |-> Trim(r.quot), rem |-> r.rem]

RECURSIVE BitsOf(_)
BitsOf(k) == IF k = 0 THEN 0 ELSE 1 + BitsOf(k \div 2)
BitLen(n) == IF n = <<>> THEN 0 ELSE LimbBits * (Len(n) - 1) + BitsOf(n[Len(n)])

Zeros(k) == [i \in 1..k |-> 0]

\* n * 2^k
ShiftLeft(n, k) ==
    IF n = <<>> THEN <<>>
    ELSE Zeros(k \div LimbBits) \o BigMulLimb(n, 2 ^ (k % LimbBits))

\* n \div 2^k
ShiftRight(n, k) ==
    LET q == k \div LimbBits
        p == 2 ^ (k % LimbBits)
        hi == IF q >= Len(n) THEN <<>> ELSE SubSeq(n, q + 1, Len(n))
    IN  Trim([i \in 1..Len(hi) |->
                 (hi[i] \div p) + (Limb(hi, i + 1) % p) * (Base \div p)])

\* bit i of n (bit 0 is the least significant)
BitAt(n, i) == (Limb(n, i \div LimbBits + 1) \div (2 ^ (i % LimbBits))) % 2

\* n % 2^k # 0
LowBitsSet(n, k) ==
    \/ \E i \in 1..Min(k \div LimbBits, Len(n)) : n[i] # 0
    \/ Limb(n, k \div LimbBits + 1) % (2 ^ (k % LimbBits)) # 0

\* the float nearest to +-n * 2^e, ties to even
FRound(neg, n, e) ==
    LET drop == BitLen(n) - MantissaBits
    IN  IF drop <= 0 THEN [neg |-> neg, m |-> n, e |-> e]
        ELSE LET q == ShiftRight(n, drop)
                 up == /\ BitAt(n, drop - 1) = 1
                       /\ (LowBitsSet(n, drop - 1) \/ BitAt(q, 0) = 1)
             IN  [neg |-> neg,
                  m |-> IF up THEN BigAdd(q, <<1>>) ELSE q,
                  e |-> e + drop]

\* float(k) of an int k
FInt(k) == [neg |-> k < 0, m |-> BigOf(IF k < 0 THEN -k ELSE k), e |-> 0]

\* the float of the decimal literal num/den (num >= 0, den a power of ten):
\* the quotient to 64 binary places, one more bit set if the division left
\* a remainder, rounded
FLiteral(num, den) ==
    LET d == BigDivSmall(ShiftLeft(BigOf(num), 64), den)
    IN  FRound(FALSE,
               BigAdd(ShiftLeft(d.quot, 1), IF d.rem = 0 THEN <<>> ELSE <<1>>),
               -65)

FNeg(x) == [x EXCEPT !.neg = ~x.neg]

\* x + y
FAdd(x, y) ==
    LET e == Min(x.e, y.e)
        mx == ShiftLeft(x.m, x.e - e)
        my == ShiftLeft(y.m, y.e - e)
    IN  IF x.neg = y.neg THEN FRound(x.neg, BigAdd(mx, my), e)
        ELSE IF BigLess(mx, my) THEN FRound(y.neg, BigSub(my, mx), e)
        ELSE FRound(x.neg, BigSub(mx, my), e)

\* x - y
FSub(x, y) == FAdd(x, FNeg(y))

\* x * y
FMul(x, y) == FRound(x.neg # y.neg, BigMul(x.m, y.m), x.e + y.e)

\* int(x): the integer part, toward zero
FTrunc(x) ==
    LET mag == IF x.e >= 0 THEN BigToInt(ShiftLeft(x.m, x.e))
               ELSE BigToInt(ShiftRight(x.m, -x.e))
    IN  IF x.neg THEN -mag ELSE mag

\* strategy_logic.py:268-273  the strategic parameters, in tenths
COEF_A == 0
COEF_B == 0
COEF_C == 2
COEF_D == 2
COEF_E == 3
COEF_F == 8

(* A Python arithmetic expression over int and float operands, kept as a   *)
(* tree, and its value as Python computes it: int with int stays an exact  *)
(* int, an int met by a float is converted to float first.                 *)
PyIntOf(k) == [t |-> "int", v |-> k]
PyFloatOf(x) == [t |-> "float", v |-> x]
PyAdd(l, r) == [t |-> "add", l |-> l, r |-> r]
PySub(l, r) == [t |-> "sub", l |-> l, r |-> r]
PyMul(l, r) == [t |-> "mul", l |-> l, r |-> r]
AsFloat(val) == IF val.t = "int" THEN FInt(val.v) ELSE val.v

RECURSIVE PyEval(_)
PyEval(ex) ==
    IF ex.t \in {"int", "float"} THEN ex
    ELSE LET l == PyEval(ex.l)
             r == PyEval(ex.r)
         IN  IF l.t = "int" /\ r.t = "int"
             THEN PyIntOf(IF ex.t = "add" THEN l.v + r.v
                          ELSE IF ex.t = "sub" THEN l.v - r.v
                          ELSE l.v * r.v)
             ELSE PyFloatOf(IF ex.t = "add" THEN FAdd(AsFloat(l), AsFloat(r))
                            ELSE IF ex.t = "sub" THEN FSub(AsFloat(l), AsFloat(r))
                            ELSE FMul(AsFloat(l), AsFloat(r)))

\* int(expression)
PyInt(ex) ==
    LET val == PyEval(ex)
    IN  IF val.t = "int" THEN val.v ELSE FTrunc(val.v)

\* the floats the literals 0.0, 0.0, 0.2, 0.2, 0.3, 0.8 denote
PA == PyFloatOf(FLiteral(COEF_A, 10))
PB == PyFloatOf(FLiteral(COEF_B, 10))
PC == PyFloatOf(FLiteral(COEF_C, 10))
PD == PyFloatOf(FLiteral(COEF_D, 10))
PE == PyFloatOf(FLiteral(COEF_E, 10))
PF == PyFloatOf(FLiteral(COEF_F, 10))
POne == PyIntOf(1)

\* strategy_logic.py:304-353  the expressions inside int(...) of the nine
\* strategy pairs, for gains_p1 and gains_p2
PayoffMatrix(s1, s2, X, Y) ==
    LET x == PyIntOf(X)
        y == PyIntOf(Y)
        I_X_gt_Y == PyIntOf(IF X > Y THEN 1 ELSE 0)
        I_Y_gt_X == PyIntOf(IF Y > X THEN 1 ELSE 0)
    IN  IF s1 = "V" /\ s2 = "V"
        THEN <<PyAdd(PyMul(PySub(POne, PA), x), PyMul(PB, y)),
               PyAdd(PyMul(PA, x), PyMul(PySub(POne, PB), y))>>
        ELSE IF s1 = "V" /\ s2 = "C"
        THEN <<PyAdd(x, PyMul(PyMul(PySub(POne, PF), PC), PyAdd(x, y))),
               PyAdd(y, PyMul(PyMul(PF, PC), PyAdd(x, y)))>>
        ELSE IF s1 = "V" /\ s2 = "G"
        THEN <<PyMul(PySub(POne, PE), x),
               PyAdd(y, PyMul(PE, x))>>
        ELSE IF s1 = "C" /\ s2 = "V"
        THEN <<PyAdd(x, PyMul(PyMul(PF, PC), PyAdd(x, y))),
               PyAdd(y, PyMul(PyMul(PySub(POne, PF), PC), PyAdd(x, y)))>>
        ELSE IF s1 = "C" /\ s2 = "C"
        THEN <<PyMul(PyAdd(POne, PC), x),
               PyMul(PyAdd(POne, PC), y)>>
        ELSE IF s1 = "C" /\ s2 = "G"
        THEN <<PyMul(PyMul(PySub(POne, PE), PyAdd(POne, PC)), x),
               PyMul(PyAdd(POne, PC), PyAdd(y, PyMul(PE, x)))>>
        ELSE IF s1 = "G" /\ s2 = "V"
        THEN <<PyAdd(x, PyMul(PE, y)),
               PyMul(PySub(POne, PE), y)>>
        ELSE IF s1 = "G" /\ s2 = "C"
        THEN <<PyMul(PyAdd(POne, PC), PyAdd(x, PyMul(PE, y))),
               PyMul(PyMul(PySub(POne, PE), PyAdd(POne, PC)), y)>>
        ELSE IF s1 = "G" /\ s2 = "G"
        THEN <<PySub(PyAdd(PyMul(PySub(POne, PD), x),
                           PyMul(PyMul(PE, y), I_X_gt_Y)),
                     PyMul(PyMul(PE, x), I_Y_gt_X)),
               PySub(PyAdd(PyMul(PySub(POne, PD), y),
                           PyMul(PyMul(PE, x), I_Y_gt_X)),
                     PyMul(PyMul(PE, y), I_X_gt_Y))>>
        ELSE <<PyIntOf(0), PyIntOf(0)>>

\* strategy_logic.py:304-353  gains_p1, gains_p2 before cost and clamp
BaseGains(s1, s2, X, Y) ==
    LET matrix == PayoffMatrix(s1, s2, X, Y)
    IN  <<PyInt(matrix[1]), PyInt(matrix[2])>>

Max(x, y) == IF x >= y THEN x ELSE y

\* no Fadu passed to calculate_gains (fadu1 = None)
NoFadu == [type |-> "none", pfh |-> 0]
\* the dict of a Fadu card: its type and its pfh
Fadu(type, pfh) == [type |-> type, pfh |-> pfh]

\* strategy_logic.py:289-302  the value X (Y) that enters the payoff matrix
EffectiveValue(pfh, fadu, sacrifice) ==
    IF sacrifice /\ fadu # NoFadu /\ fadu.type = "sacrifice" THEN fadu.pfh
    ELSE IF fadu # NoFadu THEN fadu.pfh
    ELSE pfh

\* strategy_logic.py:355-362  the sacrifice cost, then the clamp at 0
NetGains_unclamped(base, sacrifice) ==
    base - (IF sacrifice THEN SACRIFICE_COST ELSE 0)
NetGains(base, sacrifice) ==
    Max(base - (IF sacrifice THEN SACRIFICE_COST ELSE 0), 0)

(* A game session holds cards of fadu_data.py, a handful of values that    *)
(* come back in every battle: BaseGains on them is computed once and kept  *)
(* as an explicit function (@@ makes it one); any other X, Y is computed   *)
(* at the call.                                                            *)
TabulatedValues == StandardCards \cup SacrificeCards
BaseGainsTable ==
    [k \in Strategies \X Strategies \X TabulatedValues \X TabulatedValues |->
        BaseGains(k[1], k[2], k[3], k[4])] @@ <<>>
BaseGainsAt(s1, s2, X, Y) ==
    IF X \in TabulatedValues /\ Y \in TabulatedValues
    THEN BaseGainsTable[<<s1, s2, X, Y>>]
    ELSE BaseGains(s1, s2, X, Y)

\* strategy_logic.py:355-362  cost and clamp applied to gains_p1, gains_p2
AfterCost(base, sacrifice1, sacrifice2) ==
    <<NetGains(base[1], sacrifice1), NetGains(base[2], sacrifice2)>>

\* strategy_logic.py:275-362  calculate_gains
calculate_gains(s1, s2, pfh1, pfh2, fadu1, fadu2, sacrifice1, sacrifice2) ==
    AfterCost(BaseGainsAt(s1, s2, EffectiveValue(pfh1, fadu1, sacrifice1),
                          EffectiveValue(pfh2, fadu2, sacrifice2)),
              sacrifice1, sacrifice2)

(* game_actions.py:1006  strategy_logic.calculate_turn_results(game), read   *)
(* for .player1_gains / .player2_gains.  No function of that signature is   *)
(* in the repository; the gains are taken to be calculate_gains on the      *)
(* row's strategies, with the Fadu chosen as strategy_logic.py:449-458      *)
(* chooses it: the sacrifice card of a player who sacrifices and holds      *)
(* one, else the standard card.                                             *)
TurnFadu(g, p) ==
    IF g.sacrifice[p] = "True" /\ g.sacrifice_card[p] # NoCard
    THEN Fadu("sacrifice", g.sacrifice_card[p])
    ELSE IF g.card[p] # NoCard THEN Fadu("standard", g.card[p])
    ELSE NoFadu
TurnGains(g, pfh) ==
    calculate_gains(g.strategy["player1"], g.strategy["player2"],
                    pfh["player1"], pfh["player2"],
                    TurnFadu(g, "player1"), TurnFadu(g, "player2"),
                    g.sacrifice["player1"] = "True", g.sacrifice["player2"] = "True")

\* game_actions.py:992-993  the sacrifice cost of player p
SacrificeCostOf(g, p) == IF g.sacrifice[p] = "True" THEN MIN_PFH_FOR_SACRIFICE ELSE 0

\* game_actions.py:996-999  the final PFH checks of the battle
BattleAffordable(g, pfh) ==
    \A p \in PlayerTypes :
        g.sacrifice[p] = "True" => pfh[p] >= SacrificeCostOf(g, p)

\* game_actions.py:1002-1014  debit the cost, add the gains, clamp at 0
FinalPfh_signslip(pfh, cost, gains) == pfh - cost - gains
FinalPfh(pfh, cost, gains) == Max(0, pfh - cost + gains)

\* game_actions.py:1008-1014  the players' PFH after the battle, gains being
\* what calculate_turn_results returned
BattlePfh(g, pfh, gains) ==
    [p \in PlayerTypes |->
        FinalPfh(pfh[p], SacrificeCostOf(g, p),
                 IF p = "player1" THEN gains[1] ELSE gains[2])]
\* game_actions.py:1017-1031  the TurnResult row of the battle
BattleRecord(g, gains, final) ==
    [turn_number |-> g.current_turn,
     player1_gains |-> gains[1], player1_final_pfh |-> final["player1"],
     player2_gains |-> gains[2], player2_final_pfh |-> final["player2"]]
\* game_actions.py:984-1037  process_battle_phase
process_battle_phase(g, pfh, gains) ==
    /\ current_pfh' = BattlePfh(g, pfh, gains)
    /\ turn_results' =
           Append(turn_results, BattleRecord(g, gains, BattlePfh(g, pfh, gains)))

\* game_actions.py:1039-1059  finalize_game
finalize_game(g, pfh) ==
    [g EXCEPT !.winner = IF pfh["player1"] > pfh["player2"] THEN "player1"
                         ELSE IF pfh["player2"] > pfh["player1"] THEN "player2"
                         ELSE "draw",
              !.is_completed = TRUE]

\* game_actions.py:939-959  the phase next_phase assigns when leaving a phase
PhaseAfter_back(phase) ==
    IF phase = "draw" THEN "strategy"
    ELSE IF phase = "strategy" THEN "draw"
    ELSE IF phase = "sacrifice" THEN "results"
    ELSE "draw"
PhaseAfter(phase) ==
    IF phase = "draw" THEN "strategy"
    ELSE IF phase = "strategy" THEN "sacrifice"
    ELSE IF phase = "sacrifice" THEN "results"
    ELSE "draw"

\* game_actions.py:919-982  next_phase
next_phase(user) ==
    LET v == verify_game_status(game, user)
        current_phase == game.current_phase
    IN  IF v # "ok" THEN Reject("next_phase", user, StatusOf(v), v)
        ELSE IF ~can_transition_to_next_phase(game, current_phase)
             THEN Reject("next_phase", user, 400, "cannot_transition")
        ELSE IF current_phase = "draw"
             THEN /\ game' = [game EXCEPT !.current_phase = PhaseAfter("draw"),
                                          !.current_player = "player1"]
                  /\ response' = Resp("next_phase", user, 200, "ok")
                  /\ UNCHANGED <<current_pfh, turn_results>>
        ELSE IF current_phase = "strategy"
             THEN /\ game' = [game EXCEPT !.current_phase = PhaseAfter("strategy"),
                                          !.current_player = "player1"]
                  /\ response' = Resp("next_phase", user, 200, "ok")
                  /\ UNCHANGED <<current_pfh, turn_results>>
        ELSE IF current_phase = "sacrifice"
             THEN IF ~BattleAffordable(game, current_pfh)
                  THEN Reject("next_phase", user, 400, "battle_insufficient_pfh")
                  ELSE /\ process_battle_phase(game, current_pfh,
                                               TurnGains(game, current_pfh))
                       /\ game' = [game EXCEPT !.current_phase = PhaseAfter("sacrifice")]
                       /\ response' = Resp("next_phase", user, 200, "ok")
        ELSE IF current_phase = "results"
             THEN /\ game' = IF game.current_turn < game.max_turns
                                  /\ ~game.is_completed
                             THEN reset_turn_data(
                                      [game EXCEPT !.current_turn = @ + 1,
                                                   !.current_phase = PhaseAfter("results"),
                                                   !.current_player = "player1"])
                             ELSE finalize_game(game, current_pfh)
                  /\ response' = Resp("next_phase", user, 200, "ok")
                  /\ UNCHANGED <<current_pfh, turn_results>>
        ELSE /\ response' = Resp("next_phase", user, 200, "ok")
             /\ UNCHANGED <<game, current_pfh, turn_results>>

\* game_actions.py:592-600  the row of a new game, both players present
FreshGame ==
    [current_phase |-> "draw", current_player |-> "player1",
     current_turn |-> 1, max_turns |-> MAX_TURNS,
     is_completed |-> FALSE, winner |-> "None",
     card |-> [p \in PlayerTypes |-> NoCard],
     sacrifice_card |-> [p \in PlayerTypes |-> NoCard],
     strategy |-> [p \in PlayerTypes |-> "None"],
     sacrifice |-> [p \in PlayerTypes |-> "None"]]

\* config.py:50-54  settings.INITIAL_PFH
INITIAL_PFH == 100
\* the values the stored rows of the model take
RowPfh == {0, INITIAL_PFH}
RowTurns == {1, MAX_TURNS}
RowCards == {NoCard, 64}
RowSacrificeCards == {NoCard, 60}
Phases == {"draw", "strategy", "sacrifice", "results"}

\* a stored row is one the phase order allows: the inputs of the earlier
\* phases of the turn are present, those of the later phases are not
RowAllowed(g) ==
    /\ \A p \in PlayerTypes : g.sacrifice_card[p] # NoCard => g.card[p] # NoCard
    /\ g.current_phase # "draw" => \A p \in PlayerTypes : g.card[p] # NoCard
    /\ g.current_phase \in {"draw"} => \A p \in PlayerTypes : g.strategy[p] = "None"
    /\ g.current_phase \in {"sacrifice", "results"}
          => \A p \in PlayerTypes : g.strategy[p] # "None"
    /\ g.current_phase \in {"draw", "strategy"}
          => \A p \in PlayerTypes : g.sacrifice[p] = "None"
    /\ g.current_phase = "results" => \A p \in PlayerTypes : g.sacrifice[p] # "None"

OpenRows ==
    {g \in [current_phase : Phases, current_player : PlayerTypes,
            current_turn : RowTurns, max_turns : {MAX_TURNS},
            is_completed : {FALSE}, winner : {"None"},
            card : [PlayerTypes -> RowCards],
            sacrifice_card : [PlayerTypes -> RowSacrificeCards],
            strategy : [PlayerTypes -> Strategies \cup {"None"}],
            sacrifice : [PlayerTypes -> {"None", "True", "False"}]] :
        RowAllowed(g)}

NoResponse == Resp("none", "none", 0, "none")

\* a stored session: an open row, or a row of the last turn marked completed
\* by finalize_game
GInit ==
    /\ current_pfh \in [PlayerTypes -> RowPfh]
    /\ \E g \in OpenRows :
          \/ game = g
          \/ g.current_turn = MAX_TURNS /\ game = finalize_game(g, current_pfh)
    /\ turn_results = <<>>
    /\ response = NoResponse

\* the state of the game part while the matchmaking handlers run
GIdle ==
    /\ game = FreshGame
    /\ current_pfh = [p \in PlayerTypes |-> INITIAL_PFH]
    /\ turn_results = <<>>
    /\ response = NoResponse

\* POST /{game_id}/cards/draw and /cards/sacrifice (game_actions.py:661-677)
DrawCard ==
    /\ \E user \in Users, is_sacrifice \in BOOLEAN :
          \E card \in (IF is_sacrifice THEN SacrificeCards ELSE StandardCards)
                          \cup {NoCard} :
              draw_card(user, is_sacrifice, card)
    /\ UNCHANGED not_gvars

\* POST /{game_id}/strategy
ChooseStrategy ==
    /\ \E user \in Users, strategy \in Strategies : choose_strategy(user, strategy)
    /\ UNCHANGED not_gvars

\* POST /{game_id}/sacrifice
DecideSacrifice ==
    /\ \E user \in Users, sacrifice \in BOOLEAN : decide_sacrifice(user, sacrifice)
    /\ UNCHANGED not_gvars

\* POST /{game_id}/next-phase
NextPhase ==
    /\ \E user \in Users : next_phase(user)
    /\ UNCHANGED not_gvars

\* no call of the outcome engine is made, none has returned
NoCall == [fn |-> "none"]
Pending == [done |-> FALSE]

\* the state of the engine part while the handlers of the other parts run
SIdle ==
    /\ sl_call = NoCall
    /\ sl_result = Pending

\* matchmaking.py:101-105  the module globals as imported; every player of
\* the model has its players row
HInit ==
    /\ http_matchmaking_queue = <<>>
    /\ pending_matches = <<>>
    /\ http_games = <<>>
    /\ player_rows = PlayerIds
    /\ http_response = [op |-> "none", status |-> "none"]

\* websocket_manager.py:17-27, 140  the manager as constructed; no endpoint
\* has been called yet
RInit ==
    /\ websocket_manager = [player_connections |-> <<>>,
                            game_connections |-> <<>>,
                            matchmaking_connections |-> {},
                            connection_metadata |-> <<>>]
    /\ handler = [w \in Sockets |-> "new"]
    /\ transport = [w \in Sockets |-> "open"]
    /\ mgr_call = [fn |-> "none"]

\* no next-phase request is in flight
NoRequest == [phase |-> "none"]
CIdle == loaded = [u \in PlayerTypes |-> NoRequest]

Init == QInit /\ GIdle /\ SIdle /\ HInit /\ RInit /\ CIdle
Spec == Init /\ [][Next]_vars

GameInit == QInit /\ GInit /\ SIdle /\ HInit /\ RInit /\ CIdle
GameNext ==
    \/ DrawCard
    \/ ChooseStrategy
    \/ DecideSacrifice
    \/ NextPhase
GameSpec == GameInit /\ [][GameNext]_vars

\* the handlers on a game that has just been created
NewGameInit == QInit /\ GIdle /\ SIdle /\ HInit /\ RInit /\ CIdle
NewGameSpec == NewGameInit /\ [][GameNext]_vars

\* strategy_logic.py:263-265
WINNING_PFH == 280
MAX_CONSECUTIVE_LOSSES == 3
\* strategy_logic.py:264  MAX_TURNS of strategy_logic
SL_MAX_TURNS == 20

\* strategy_logic.py:364-393  check_victory_conditions: <<ended, winner>>,
\* winner 0 = None
check_victory_conditions_pfh_first(player1_pfh, player2_pfh, player1_loss_streak, player2_loss_streak, current_turn) ==
    IF player1_pfh >= WINNING_PFH THEN <<TRUE, 1>>
    ELSE IF player2_pfh >= WINNING_PFH THEN <<TRUE, 2>>
    ELSE IF player1_loss_streak >= MAX_CONSECUTIVE_LOSSES THEN <<TRUE, 2>>
    ELSE IF player2_loss_streak >= MAX_CONSECUTIVE_LOSSES THEN <<TRUE, 1>>
    ELSE IF current_turn >= SL_MAX_TURNS
         THEN IF player1_pfh > player2_pfh THEN <<TRUE, 1>>
              ELSE IF player2_pfh > player1_pfh THEN <<TRUE, 2>>
              ELSE <<TRUE, 0>>
    ELSE <<FALSE, 0>>
check_victory_conditions(player1_pfh, player2_pfh, player1_loss_streak, player2_loss_streak, current_turn) ==
    IF player1_loss_streak >= MAX_CONSECUTIVE_LOSSES THEN <<TRUE, 2>>
    ELSE IF player2_loss_streak >= MAX_CONSECUTIVE_LOSSES THEN <<TRUE, 1>>
    ELSE IF player1_pfh >= WINNING_PFH THEN <<TRUE, 1>>
    ELSE IF player2_pfh >= WINNING_PFH THEN <<TRUE, 2>>
    ELSE IF current_turn >= SL_MAX_TURNS
         THEN IF player1_pfh > player2_pfh THEN <<TRUE, 1>>
              ELSE IF player2_pfh > player1_pfh THEN <<TRUE, 2>>
              ELSE <<TRUE, 0>>
    ELSE <<FALSE, 0>>

\* strategy_logic.py:395-416  draw_fadu: the dict of a drawn card; pfh is the
\* value random.choices returned
draw_fadu(fadu_type, pfh) == Fadu(fadu_type, pfh)

\* strategy_logic.py:433-436, 441-444  player{1,2}_can_sacrifice
CanSacrifice(action, pfh) == action.sacrifice /\ pfh >= SACRIFICE_COST

\* strategy_logic.py:437-438, 445-446  the sacrifice Fadu, drawn only for a
\* player who can sacrifice
SacrificeFadu(can_sacrifice, pfh) ==
    IF can_sacrifice THEN draw_fadu("sacrifice", pfh) ELSE NoFadu

\* strategy_logic.py:454-455  the Fadu handed to calculate_gains
GivenFadu(can_sacrifice, sacrifice_pfh, standard_pfh) ==
    IF can_sacrifice THEN SacrificeFadu(can_sacrifice, sacrifice_pfh)
    ELSE draw_fadu("standard", standard_pfh)

\* strategy_logic.py:461-472  the loss streak after the turn
LossStreak(new_pfh, consecutive_losses) ==
    IF new_pfh = 0 THEN consecutive_losses + 1 ELSE 0

(* strategy_logic.py:482-496  the TurnResult that is returned, with the     *)
(* locals X, Y of calculate_gains and the two loss streaks beside it       *)
TurnResult(game_data, drawn, can1, can2, new_pfh, streak1, streak2, victory) ==
    [turn_number |-> game_data.current_turn,
     player1_pfh |-> new_pfh[1], player2_pfh |-> new_pfh[2],
     player1_sacrifice |-> can1, player2_sacrifice |-> can2,
     player1_fadu |-> draw_fadu("standard", drawn.standard1),
     player2_fadu |-> draw_fadu("standard", drawn.standard2),
     player1_sacrifice_fadu |-> SacrificeFadu(can1, drawn.sacrifice1),
     player2_sacrifice_fadu |-> SacrificeFadu(can2, drawn.sacrifice2),
     game_ended |-> victory[1], winner |-> victory[2],
     X |-> EffectiveValue(game_data.player1_pfh,
                          GivenFadu(can1, drawn.sacrifice1, drawn.standard1), can1),
     Y |-> EffectiveValue(game_data.player2_pfh,
                          GivenFadu(can2, drawn.sacrifice2, drawn.standard2), can2),
     player1_loss_streak |-> streak1, player2_loss_streak |-> streak2]

\* strategy_logic.py:474-496  victory check and result, the streaks known
TurnAfterStreaks(game_data, drawn, can1, can2, new_pfh, streak1, streak2) ==
    TurnResult(game_data, drawn, can1, can2, new_pfh, streak1, streak2,
               check_victory_conditions(new_pfh[1], new_pfh[2], streak1, streak2,
                                        game_data.current_turn))

\* strategy_logic.py:460-496  the rest of the turn, the new PFH known
TurnAfterGains(game_data, drawn, can1, can2, new_pfh) ==
    TurnAfterStreaks(game_data, drawn, can1, can2, new_pfh,
                     LossStreak(new_pfh[1], game_data.player1_consecutive_losses),
                     LossStreak(new_pfh[2], game_data.player2_consecutive_losses))

\* strategy_logic.py:448-496  the turn once it is known who can sacrifice
TurnAfterDraws(game_data, strategy1, strategy2, drawn, can1, can2) ==
    TurnAfterGains(game_data, drawn, can1, can2,
                   calculate_gains(strategy1, strategy2,
                                   game_data.player1_pfh, game_data.player2_pfh,
                                   GivenFadu(can1, drawn.sacrifice1, drawn.standard1),
                                   GivenFadu(can2, drawn.sacrifice2, drawn.standard2),
                                   can1, can2))

(* strategy_logic.py:418-496  calculate_turn_results.  drawn holds the     *)
(* values random.choices returns for the two standard draws and for the    *)
(* sacrifice draws that are made.                                          *)
calculate_turn_results(game_data, player1_action, player2_action, drawn) ==
    TurnAfterDraws(game_data, player1_action.strategy, player2_action.strategy,
                   drawn,
                   CanSacrifice(player1_action, game_data.player1_pfh),
                   CanSacrifice(player2_action, game_data.player2_pfh))

\* the arguments the calls of the model take
EnginePfh == {0, 90, 100}
EngineFadus ==
    {NoFadu, Fadu("standard", 5), Fadu("standard", 25),
     Fadu("sacrifice", 30), Fadu("sacrifice", 90)}
VictoryPfh == {0, 100, 279, 280}
VictoryStreaks == 0..MAX_CONSECUTIVE_LOSSES
VictoryTurns == {1, SL_MAX_TURNS - 1, SL_MAX_TURNS}
TurnPfh == {SACRIFICE_COST - 1, INITIAL_PFH}
TurnLosses == {0, MAX_CONSECUTIVE_LOSSES - 1}
TurnTurns == {1, SL_MAX_TURNS}
TurnStandardDraws == {5, 70}
TurnSacrificeDraws == {90}

GainsCalls ==
    [fn : {"calculate_gains"}, strategy1 : Strategies, strategy2 : Strategies,
     pfh1 : EnginePfh, pfh2 : EnginePfh,
     fadu1 : EngineFadus, fadu2 : EngineFadus,
     sacrifice1 : BOOLEAN, sacrifice2 : BOOLEAN]
VictoryCalls ==
    [fn : {"check_victory_conditions"},
     player1_pfh : VictoryPfh, player2_pfh : VictoryPfh,
     player1_loss_streak : VictoryStreaks, player2_loss_streak : VictoryStreaks,
     current_turn : VictoryTurns]
TurnCalls ==
    [fn : {"calculate_turn_results"},
     game_data : [player1_pfh : TurnPfh, player2_pfh : TurnPfh,
                  player1_consecutive_losses : TurnLosses,
                  player2_consecutive_losses : TurnLosses,
                  current_turn : TurnTurns],
     player1_action : [strategy : Strategies, sacrifice : BOOLEAN],
     player2_action : [strategy : Strategies, sacrifice : BOOLEAN],
     drawn : [standard1 : TurnStandardDraws, standard2 : TurnStandardDraws,
              sacrifice1 : TurnSacrificeDraws, sacrifice2 : TurnSacrificeDraws]]

\* a call of one of the three functions is about to be made
SInit ==
    /\ \/ sl_call \in GainsCalls
       \/ sl_call \in VictoryCalls
       \/ sl_call \in TurnCalls
    /\ sl_result = Pending

CalculateGains ==
    /\ sl_call.fn = "calculate_gains"
    /\ ~sl_result.done
    /\ sl_result' =
           [done |-> TRUE,
            ret |-> calculate_gains(sl_call.strategy1, sl_call.strategy2,
                                    sl_call.pfh1, sl_call.pfh2,
                                    sl_call.fadu1, sl_call.fadu2,
                                    sl_call.sacrifice1, sl_call.sacrifice2),
            X |-> EffectiveValue(sl_call.pfh1, sl_call.fadu1, sl_call.sacrifice1),
            Y |-> EffectiveValue(sl_call.pfh2, sl_call.fadu2, sl_call.sacrifice2)]
    /\ UNCHANGED sl_call
    /\ UNCHANGED not_svars

CheckVictoryConditions ==
    /\ sl_call.fn = "check_victory_conditions"
    /\ ~sl_result.done
    /\ sl_result' =
           [done |-> TRUE,
            ret |-> check_victory_conditions(
                        sl_call.player1_pfh, sl_call.player2_pfh,
                        sl_call.player1_loss_streak, sl_call.player2_loss_streak,
                        sl_call.current_turn)]
    /\ UNCHANGED sl_call
    /\ UNCHANGED not_svars

CalculateTurnResults ==
    /\ sl_call.fn = "calculate_turn_results"
    /\ ~sl_result.done
    /\ sl_result' =
           [done |-> TRUE,
            ret |-> calculate_turn_results(sl_call.game_data,
                                           sl_call.player1_action,
                                           sl_call.player2_action, sl_call.drawn)]
    /\ UNCHANGED sl_call
    /\ UNCHANGED not_svars

EngineInit == QInit /\ GIdle /\ SInit /\ HInit /\ RInit /\ CIdle
EngineNext ==
    \/ CalculateGains
    \/ CheckVictoryConditions
    \/ CalculateTurnResults
EngineSpec == EngineInit /\ [][EngineNext]_vars

(* The turns of one session.  calculate_turn_results reads the two streaks *)
(* with game_data.get (strategy_logic.py:461-462), counts in locals         *)
(* (:464-472) and returns a TurnResult that has no streak field (:482-496): *)
(* game_data is left as it was.  The caller keeps the new PFH and moves to  *)
(* the next turn (game_actions.py:1009-1014, 956); no statement of the      *)
(* repository assigns player1_consecutive_losses or                         *)
(* player2_consecutive_losses (models.py:120-121).                          *)
NextTurnData(game_data, result) ==
    [game_data EXCEPT !.player1_pfh = result.player1_pfh,
                      !.player2_pfh = result.player2_pfh,
                      !.current_turn = @ + 1]

\* what the players submit in a later turn, and the values drawn in it
LaterActions == [strategy : {"V", "G"}, sacrifice : BOOLEAN]
LaterDraws ==
    [standard1 : TurnStandardDraws, standard2 : {5},
     sacrifice1 : TurnSacrificeDraws, sacrifice2 : TurnSacrificeDraws]

\* the next turn of a session that has not ended is calculated
NextTurn(player1_action, player2_action, drawn) ==
    /\ sl_call.fn = "calculate_turn_results"
    /\ sl_result.done
    /\ ~sl_result.ret.game_ended
    /\ sl_call.game_data.current_turn < MAX_CONSECUTIVE_LOSSES
    /\ sl_call' = [fn |-> "calculate_turn_results",
                   game_data |-> NextTurnData(sl_call.game_data, sl_result.ret),
                   player1_action |-> player1_action,
                   player2_action |-> player2_action,
                   drawn |-> drawn]
    /\ sl_result' = Pending
    /\ UNCHANGED not_svars

TurnsInit ==
    /\ QInit /\ GIdle /\ HInit /\ RInit /\ CIdle
    /\ sl_call \in TurnCalls
    /\ sl_result = Pending
TurnsNext ==
    \/ CalculateTurnResults
    \/ \E player1_action \in LaterActions, player2_action \in LaterActions,
          drawn \in LaterDraws :
           NextTurn(player1_action, player2_action, drawn)
TurnsSpec == TurnsInit /\ [][TurnsNext]_vars

(***************************************************************************)
(* Part 4 -- HTTP matchmaking, matchmaking.py                              *)
(* Each endpoint runs under queue_lock or without an await between its     *)
(* reads and writes, so a request is one step.                             *)
(***************************************************************************)
ListIds(q) == {q[i] : i \in 1..Len(q)}

\* list.remove(user_id): the list without the first occurrence of user_id
RECURSIVE ListRemove(_, _)
ListRemove(q, user_id) ==
    IF q = <<>> THEN <<>>
    ELSE IF Head(q) = user_id THEN Tail(q)
         ELSE <<Head(q)>> \o ListRemove(Tail(q), user_id)

HttpAnswer(op, status) == [op |-> op, status |-> status]

\* matchmaking.py:160-165  match_info_player1
MatchInfo(game_id) ==
    [status |-> "match_found", game_id |-> game_id, player_position |-> 1]

\* matchmaking.py:139  the queue after matchmaking_queue.pop(0)
AfterPopFirst(q) == Tail(q)

(* matchmaking.py:112-191  join_matchmaking.  created = the DBGame row was  *)
(* built and committed (:150-157); when that raises, the handler's except  *)
(* clause (:189-191) rolls the transaction back and answers 500.  The 404  *)
(* of :129 is raised inside the same try and leaves as a 500 as well.      *)
join_matchmaking(user_id, created) ==
    IF user_id \notin player_rows
    THEN /\ http_response' = HttpAnswer("join", "error_500")
         /\ UNCHANGED <<http_matchmaking_queue, pending_matches, http_games>>
    ELSE IF user_id \in ListIds(http_matchmaking_queue)
    THEN /\ http_response' = HttpAnswer("join", "already_in_queue")
         /\ UNCHANGED <<http_matchmaking_queue, pending_matches, http_games>>
    ELSE IF Len(http_matchmaking_queue) >= 1
    THEN IF Head(http_matchmaking_queue) \notin player_rows
         THEN /\ http_matchmaking_queue' =
                     Append(AfterPopFirst(http_matchmaking_queue), user_id)
              /\ http_response' = HttpAnswer("join", "waiting_for_opponent")
              /\ UNCHANGED <<pending_matches, http_games>>
         ELSE IF created
         THEN /\ Len(http_games) < MaxMatches
              /\ http_matchmaking_queue' = AfterPopFirst(http_matchmaking_queue)
              /\ http_games' =
                     Append(http_games,
                            [player1_id |-> Head(http_matchmaking_queue),
                             player2_id |-> user_id])
              /\ pending_matches' =
                     MetaPut(pending_matches, Head(http_matchmaking_queue),
                             MatchInfo(Len(http_games) + 1))
              /\ http_response' = HttpAnswer("join", "match_found")
         ELSE /\ http_matchmaking_queue' = AfterPopFirst(http_matchmaking_queue)
              /\ http_response' = HttpAnswer("join", "error_500")
              /\ UNCHANGED <<pending_matches, http_games>>
    ELSE /\ http_matchmaking_queue' = Append(http_matchmaking_queue, user_id)
         /\ http_response' = HttpAnswer("join", "waiting_for_opponent")
         /\ UNCHANGED <<pending_matches, http_games>>

\* POST /matchmaking
JoinMatchmaking(user_id, created) ==
    /\ join_matchmaking(user_id, created)
    /\ UNCHANGED player_rows
    /\ UNCHANGED not_hvars

\* matchmaking.py:199-222  GET /matchmaking/status/{user_id}
CheckMatchmakingStatus(user_id) ==
    /\ IF user_id \in DOMAIN pending_matches
       THEN /\ pending_matches' = MetaPop(pending_matches, user_id)
            /\ http_response' = HttpAnswer("status", "match_found")
       ELSE /\ pending_matches' = pending_matches
            /\ http_response' =
                   HttpAnswer("status",
                              IF user_id \in ListIds(http_matchmaking_queue)
                              THEN "waiting_for_opponent" ELSE "not_in_queue")
    /\ UNCHANGED <<http_matchmaking_queue, http_games, player_rows>>
    /\ UNCHANGED not_hvars

\* matchmaking.py:229-249  DELETE /matchmaking/{user_id}
LeaveMatchmaking(user_id) ==
    /\ IF user_id \in ListIds(http_matchmaking_queue)
       THEN /\ http_matchmaking_queue' =
                   ListRemove(http_matchmaking_queue, user_id)
            /\ pending_matches' = pending_matches
            /\ http_response' = HttpAnswer("leave", "removed_from_queue")
       ELSE /\ http_matchmaking_queue' = http_matchmaking_queue
            /\ pending_matches' =
                   IF user_id \in DOMAIN pending_matches
                   THEN MetaPop(pending_matches, user_id)
                   ELSE pending_matches
            /\ http_response' = HttpAnswer("leave", "not_in_queue")
    /\ UNCHANGED <<http_games, player_rows>>
    /\ UNCHANGED not_hvars

\* players.py:513-530  DELETE /players/{player_id}
DeletePlayer(player_id) ==
    /\ IF player_id \in player_rows
       THEN /\ player_rows' = player_rows \ {player_id}
            /\ http_response' = HttpAnswer("delete_player", "no_content_204")
       ELSE /\ player_rows' = player_rows
            /\ http_response' = HttpAnswer("delete_player", "error_404")
    /\ UNCHANGED <<http_matchmaking_queue, pending_matches, http_games>>
    /\ UNCHANGED not_hvars

\* the ids the clients put in their requests
RequestIds == PlayerIds \cup {UnknownPlayer}

HttpInit == QInit /\ GIdle /\ SIdle /\ HInit /\ RInit /\ CIdle
HttpNext ==
    \/ \E user_id \in RequestIds, created \in BOOLEAN :
          JoinMatchmaking(user_id, created)
    \/ \E user_id \in RequestIds : CheckMatchmakingStatus(user_id)
    \/ \E user_id \in RequestIds : LeaveMatchmaking(user_id)
    \/ \E player_id \in RequestIds : DeletePlayer(player_id)

HttpSpec == HttpInit /\ [][HttpNext]_vars

(***************************************************************************)
(* Part 5 -- the connection registry, websocket_manager.py, driven by the  *)
(* endpoint handlers of websocket.py and by the senders.  The methods of   *)
(* the manager are functions of the manager's state m; the bodies of       *)
(* connect and disconnect run under self.lock without an await.            *)
(***************************************************************************)
\* the player ids and game ids the connections are opened for
RegistryIds == {1, 2}
\* an id that has no row (player not found, game not found)
NoRow == 3

\* websocket_manager.py:29-52  connect (identifier = NoPlayer for None)
mgr_connect(m, websocket, connection_type, identifier) ==
    [player_connections |->
         IF connection_type = "player" /\ identifier # NoPlayer
         THEN MetaPut(m.player_connections, identifier, websocket)
         ELSE m.player_connections,
     game_connections |->
         IF connection_type = "game" /\ identifier # NoPlayer
         THEN MetaPut(m.game_connections, identifier,
                      (IF identifier \in DOMAIN m.game_connections
                       THEN m.game_connections[identifier] ELSE {})
                          \cup {websocket})
         ELSE m.game_connections,
     matchmaking_connections |->
         IF connection_type = "matchmaking"
         THEN m.matchmaking_connections \cup {websocket}
         ELSE m.matchmaking_connections,
     connection_metadata |->
         MetaPut(m.connection_metadata, websocket,
                 [type |-> connection_type, identifier |-> identifier])]

\* connection_metadata.get(websocket, {}) read for "type" and "identifier"
MetadataOf(m, websocket) ==
    IF websocket \in DOMAIN m.connection_metadata
    THEN m.connection_metadata[websocket]
    ELSE [type |-> "none", identifier |-> NoPlayer]

\* websocket_manager.py:63-67  the game branch of disconnect
GameDiscard(gc, identifier, websocket) ==
    IF identifier \notin DOMAIN gc THEN gc
    ELSE IF gc[identifier] \ {websocket} = {} THEN MetaPop(gc, identifier)
    ELSE MetaPut(gc, identifier, gc[identifier] \ {websocket})

\* websocket_manager.py:54-73  disconnect
mgr_disconnect_keep(m, websocket) == m
mgr_disconnect_sweep(m, websocket) == [m EXCEPT !.matchmaking_connections = {}, !.connection_metadata = MetaPop(m.connection_metadata, websocket)]
mgr_disconnect(m, websocket) ==
    [player_connections |->
         IF /\ MetadataOf(m, websocket).type = "player"
            /\ MetadataOf(m, websocket).identifier # NoPlayer
         THEN MetaPop(m.player_connections, MetadataOf(m, websocket).identifier)
         ELSE m.player_connections,
     game_connections |->
         IF /\ MetadataOf(m, websocket).type = "game"
            /\ MetadataOf(m, websocket).identifier # NoPlayer
         THEN GameDiscard(m.game_connections,
                          MetadataOf(m, websocket).identifier, websocket)
         ELSE m.game_connections,
     matchmaking_connections |->
         IF MetadataOf(m, websocket).type = "matchmaking"
         THEN m.matchmaking_connections \ {websocket}
         ELSE m.matchmaking_connections,
     connection_metadata |-> MetaPop(m.connection_metadata, websocket)]

\* disconnect called for each websocket of a set, one after the other
RECURSIVE DisconnectAll(_, _)
DisconnectAll(m, websockets) ==
    IF websockets = {} THEN m
    ELSE LET websocket == CHOOSE w \in websockets : TRUE
         IN  DisconnectAll(mgr_disconnect(m, websocket),
                           websockets \ {websocket})

\* websocket.send_text raises on a closed connection
Failing_none(websockets) == {}
Failing(websockets) == {w \in websockets : transport[w] = "closed"}

\* websocket_manager.py:120-128  send_personal_message
send_personal_message(m, websocket) ==
    IF transport[websocket] = "open"
    THEN [m |-> m, ret |-> TRUE]
    ELSE [m |-> mgr_disconnect(m, websocket), ret |-> FALSE]

\* websocket_manager.py:75-85  send_to_player
send_to_player(m, player_id) ==
    IF player_id \in DOMAIN m.player_connections
    THEN send_personal_message(m, m.player_connections[player_id])
    ELSE [m |-> m, ret |-> FALSE]

\* websocket_manager.py:87-103  send_to_game
GameGroup(m, game_id) ==
    IF game_id \in DOMAIN m.game_connections
    THEN m.game_connections[game_id] ELSE {}
send_to_game(m, game_id) ==
    [m |-> DisconnectAll(m, Failing(GameGroup(m, game_id))),
     ret |-> Cardinality(GameGroup(m, game_id))
                 - Cardinality(Failing(GameGroup(m, game_id)))]

\* websocket_manager.py:105-118  broadcast_matchmaking
broadcast_matchmaking(m) ==
    [m |-> DisconnectAll(m, Failing(m.matchmaking_connections)), ret |-> TRUE]

\* the endpoint handler of websocket has run into its finally clause
\* (websocket.py:118-119, 210-211, 279-281)
HandlerEnds_registered(websocket) == handler' = [handler EXCEPT ![websocket] = "done"] /\ mgr_call' = [fn |-> "disconnect", websocket |-> websocket] /\ UNCHANGED websocket_manager
HandlerEnds(websocket) ==
    /\ websocket_manager' = mgr_disconnect(websocket_manager, websocket)
    /\ handler' = [handler EXCEPT ![websocket] = "done"]
    /\ mgr_call' = [fn |-> "disconnect", websocket |-> websocket]

\* the handler registers the connection and enters its receive loop; the
\* welcome message goes to the connection just accepted
HandlerRegisters(websocket, connection_type, identifier) ==
    /\ websocket_manager' =
           mgr_connect(websocket_manager, websocket, connection_type, identifier)
    /\ handler' = [handler EXCEPT ![websocket] = "running"]
    /\ mgr_call' = [fn |-> "connect", websocket |-> websocket]
    /\ UNCHANGED transport

\* the WebSocket object of a new connection: the objects are alike, so they
\* are taken in the order of their index
Accepted(websocket) ==
    /\ handler[websocket] = "new"
    /\ \A v \in Sockets : v < websocket => handler[v] # "new"

\* websocket.py:29-119  player_websocket up to its receive loop; a player
\* without row gets an error, the connection is closed and the handler returns
PlayerWebsocket(websocket, player_id) ==
    /\ Accepted(websocket)
    /\ IF player_id \notin RegistryIds
       THEN /\ transport' = [transport EXCEPT ![websocket] = "closed"]
            /\ HandlerEnds(websocket)
       ELSE HandlerRegisters(websocket, "player", player_id)
    /\ UNCHANGED not_rvars

\* websocket.py:127-211  game_websocket up to its receive loop; member = the
\* player_id of the query is player1_id or player2_id of the game
GameWebsocket(websocket, game_id, member) ==
    /\ Accepted(websocket)
    /\ IF game_id \notin RegistryIds \/ ~member
       THEN /\ transport' = [transport EXCEPT ![websocket] = "closed"]
            /\ HandlerEnds(websocket)
       ELSE HandlerRegisters(websocket, "game", game_id)
    /\ UNCHANGED not_rvars

\* websocket.py:226-248  matchmaking_websocket up to its receive loop
MatchmakingWebsocket(websocket) ==
    /\ Accepted(websocket)
    /\ HandlerRegisters(websocket, "matchmaking", NoPlayer)
    /\ UNCHANGED not_rvars

\* the client goes away
PeerCloses(websocket) ==
    /\ handler[websocket] = "running"
    /\ transport[websocket] = "open"
    /\ transport' = [transport EXCEPT ![websocket] = "closed"]
    /\ mgr_call' = [fn |-> "none"]
    /\ UNCHANGED <<websocket_manager, handler>>
    /\ UNCHANGED not_rvars

\* websocket.py:92-119 (and 184-211, 251-281)  receive_text on a closed
\* connection raises WebSocketDisconnect: the loop is left and the finally
\* clause runs
ReceiveDisconnect(websocket) ==
    /\ handler[websocket] = "running"
    /\ transport[websocket] = "closed"
    /\ HandlerEnds(websocket)
    /\ UNCHANGED transport
    /\ UNCHANGED not_rvars

\* a call of a sender of the manager and the state it leaves
Sender(fn, arg, out) ==
    /\ websocket_manager' = out.m
    /\ mgr_call' = [fn |-> fn, arg |-> arg, ret |-> out.ret]
    /\ UNCHANGED <<handler, transport>>

\* websocket.py:89, 107, 114 ...  the handlers' answers to their own client,
\* and the notifications of try_match_players to the queued channels
SendPersonalMessage(websocket) ==
    /\ handler[websocket] # "new"
    /\ Sender("send_personal_message", websocket,
              send_personal_message(websocket_manager, websocket))
    /\ UNCHANGED not_rvars

\* websocket_service.py:38, 49, 278
SendToPlayer(player_id) ==
    /\ Sender("send_to_player", player_id,
              send_to_player(websocket_manager, player_id))
    /\ UNCHANGED not_rvars

\* websocket.py:476, 495; websocket_service.py:78-256
SendToGame(game_id) ==
    /\ Sender("send_to_game", game_id,
              send_to_game(websocket_manager, game_id))
    /\ UNCHANGED not_rvars

\* websocket.py:336-339  data.get("strategy") of a turn_action message: a
\* strategy, or nothing
SubmittedStrategies == {"V", "None"}

\* websocket.py:478-495  the message process_turn_action builds
TurnMessage(game_id, strategy, sacrifice) ==
    [type |-> "turn_action", game_id |-> game_id,
     strategy |-> strategy, sacrifice |-> sacrifice]

\* websocket.py:187-190, 336-342, 478-495  the game handler receives a
\* turn_action message of its client: handle_game_message calls
\* process_turn_action when the strategy is not empty, and this sends the
\* strategy and the sacrifice to every channel of the game's group.  The
\* submitting channel stands for the player_id of the handler.
TurnAction(websocket, strategy, sacrifice) ==
    /\ handler[websocket] = "running"
    /\ transport[websocket] = "open"
    /\ MetadataOf(websocket_manager, websocket).type = "game"
    /\ IF strategy = "None"
       THEN /\ mgr_call' = [fn |-> "none"]
            /\ UNCHANGED websocket_manager
       ELSE /\ websocket_manager' =
                  send_to_game(websocket_manager,
                      MetadataOf(websocket_manager, websocket).identifier).m
            /\ mgr_call' =
                  [fn |-> "process_turn_action", websocket |-> websocket,
                   message |-> TurnMessage(
                       MetadataOf(websocket_manager, websocket).identifier,
                       strategy, sacrifice),
                   group |-> GameGroup(websocket_manager,
                       MetadataOf(websocket_manager, websocket).identifier)
                       \ Failing(GameGroup(websocket_manager,
                           MetadataOf(websocket_manager, websocket).identifier))]
    /\ UNCHANGED <<handler, transport>>
    /\ UNCHANGED not_rvars

\* websocket.py:300, 305, 328, 336, 357, 362, 436  the message types a
\* handler has a branch for
KnownTypes(connection_type) ==
    IF connection_type = "player" THEN {"ping", "player_action"}
    ELSE IF connection_type = "game" THEN {"ping", "turn_action"}
    ELSE IF connection_type = "matchmaking"
    THEN {"ping", "join_queue", "leave_queue"}
    ELSE {}

\* message.get("type") of the inbound messages of the model
InboundTypes == {"ping", "bogus"}

\* websocket.py:314-320, 344-350, 453-459  the else branch of a handler:
\* send_personal_message(websocket, error_msg)
ErrorReply_drop(m, websocket) == [m |-> mgr_disconnect(m, websocket), ret |-> FALSE]
ErrorReply(m, websocket) == send_personal_message(m, websocket)

\* websocket.py:92-97, 184-189, 251-256 and 294-350, 352-459  a handler
\* receives a message whose type it has no branch for
UnknownMessage(websocket, message_type) ==
    /\ handler[websocket] = "running"
    /\ transport[websocket] = "open"
    /\ MetadataOf(websocket_manager, websocket).type # "none"
    /\ message_type \notin
           KnownTypes(MetadataOf(websocket_manager, websocket).type)
    /\ websocket_manager' = ErrorReply(websocket_manager, websocket).m
    /\ mgr_call' = [fn |-> "send_personal_message", arg |-> websocket,
                    ret |-> ErrorReply(websocket_manager, websocket).ret,
                    message |-> [type |-> "error", unknown |-> message_type]]
    /\ UNCHANGED <<handler, transport>>
    /\ UNCHANGED not_rvars

\* websocket_manager.py:105-118
BroadcastMatchmaking ==
    /\ Sender("broadcast_matchmaking", NoPlayer,
              broadcast_matchmaking(websocket_manager))
    /\ UNCHANGED not_rvars

RegistryInit == QInit /\ GIdle /\ SIdle /\ HInit /\ RInit /\ CIdle
RegistryNext ==
    \/ \E websocket \in Sockets, player_id \in RegistryIds \cup {NoRow} :
          PlayerWebsocket(websocket, player_id)
    \/ \E websocket \in Sockets, game_id \in RegistryIds \cup {NoRow},
          member \in BOOLEAN : GameWebsocket(websocket, game_id, member)
    \/ \E websocket \in Sockets : MatchmakingWebsocket(websocket)
    \/ \E websocket \in Sockets : PeerCloses(websocket)
    \/ \E websocket \in Sockets : ReceiveDisconnect(websocket)
    \/ \E websocket \in Sockets : SendPersonalMessage(websocket)
    \/ \E player_id \in RegistryIds : SendToPlayer(player_id)
    \/ \E game_id \in RegistryIds : SendToGame(game_id)
    \/ \E websocket \in Sockets, strategy \in SubmittedStrategies,
          sacrifice \in BOOLEAN : TurnAction(websocket, strategy, sacrifice)
    \/ \E websocket \in Sockets, message_type \in InboundTypes :
          UnknownMessage(websocket, message_type)
    \/ BroadcastMatchmaking

RegistrySpec == RegistryInit /\ [][RegistryNext]_vars

(***************************************************************************)
(* Part 6 -- next-phase requests in several worker processes               *)
(*                                                                         *)
(* main.py:213 starts uvicorn with os.cpu_count() worker processes unless  *)
(* DEBUG is set.  Each request has its own Session (database.py:17-24),    *)
(* and next_phase reads the game row with a plain query                    *)
(* (game_actions.py:927: no FOR UPDATE, no version column, no lock).  A    *)
(* request of one worker therefore reads the row, and later reads the      *)
(* players, computes and commits; a request of another worker may commit   *)
(* in between.  The second piece is taken in one step.                     *)
(***************************************************************************)
\* game_actions.py:939-951  the row after the assignments of next_phase
AdvancedRow(g) ==
    IF g.current_phase \in {"draw", "strategy"}
    THEN [g EXCEPT !.current_phase = PhaseAfter(g.current_phase),
                   !.current_player = "player1"]
    ELSE IF g.current_phase = "sacrifice"
    THEN [g EXCEPT !.current_phase = PhaseAfter("sacrifice")]
    ELSE g

\* game_actions.py:965  db.commit(): the UPDATE sets the columns the request
\* has changed on the row it read; the other columns stay as stored
WriteBack(stored, read, new) ==
    [f \in DOMAIN stored |-> IF new[f] # read[f] THEN new[f] ELSE stored[f]]

\* game_actions.py:927  game = db.query(DBGame).filter(...).first()
NextPhaseReads(user) ==
    /\ loaded[user] = NoRequest
    /\ loaded' = [loaded EXCEPT ![user] = [phase |-> "read", row |-> game]]
    /\ response' = Resp("next_phase_query", user, 0, "read")
    /\ UNCHANGED <<game, current_pfh, turn_results>>
    /\ UNCHANGED <<qvars, svars, hvars, rvars>>

\* game_actions.py:928-965  the rest of next_phase on the row g it has read:
\* the checks, the battle on the players as they are stored now, the commit
next_phase_commit(g, user) ==
    IF verify_game_status(g, user) # "ok"
    THEN Reject("next_phase", user, StatusOf(verify_game_status(g, user)),
                verify_game_status(g, user))
    ELSE IF ~can_transition_to_next_phase(g, g.current_phase)
    THEN Reject("next_phase", user, 400, "cannot_transition")
    ELSE IF g.current_phase = "sacrifice" /\ ~BattleAffordable(g, current_pfh)
    THEN Reject("next_phase", user, 400, "battle_insufficient_pfh")
    ELSE /\ game' = WriteBack(game, g, AdvancedRow(g))
         /\ IF g.current_phase = "sacrifice"
            THEN process_battle_phase(g, current_pfh, TurnGains(g, current_pfh))
            ELSE UNCHANGED <<current_pfh, turn_results>>
         /\ response' = Resp("next_phase", user, 200, "ok")

NextPhaseCommits(user) ==
    /\ loaded[user] # NoRequest
    /\ loaded' = [loaded EXCEPT ![user] = NoRequest]
    /\ next_phase_commit(loaded[user].row, user)
    /\ UNCHANGED <<qvars, svars, hvars, rvars>>

\* the stored sessions the workers serve: open rows of the first turn
WorkersInit ==
    /\ QInit /\ SIdle /\ HInit /\ RInit /\ CIdle
    /\ current_pfh \in [PlayerTypes -> RowPfh]
    /\ game \in {g \in OpenRows : g.current_turn = 1}
    /\ turn_results = <<>>
    /\ response = NoResponse

WorkersNext ==
    \/ \E user \in PlayerTypes : NextPhaseReads(user)
    \/ \E user \in PlayerTypes : NextPhaseCommits(user)

WorkersSpec == WorkersInit /\ [][WorkersNext]_vars

(***************************************************************************)
(* Part 7 -- the card service, fadu_logic.py and fadu_data.py              *)
(***************************************************************************)
\* fadu_data.py:9-14  STANDARD_FADUS (id, pfh and count of each row)
STANDARD_FADUS ==
    <<[id |-> "f1", pfh |-> 64, count |-> 1],
      [id |-> "f2", pfh |-> 60, count |-> 1],
      [id |-> "f3", pfh |-> 56, count |-> 1]>>
\* fadu_data.py:16-21  SACRIFICE_FADUS
SACRIFICE_FADUS ==
    <<[id |-> "sf1", pfh |-> 64, count |-> 4],
      [id |-> "sf2", pfh |-> 60, count |-> 4],
      [id |-> "sf3", pfh |-> 56, count |-> 4]>>

(* A probability is count / total, a float; the model holds it as a number *)
(* of ProbabilityUnit-ths, which the totals 3 and 12 divide.  In doubles    *)
(* the three probabilities 1/3 add up to 1.0 both in sum() and in the       *)
(* cumulative loop, so the last cumulative value equals total as it does    *)
(* here.                                                                    *)
ProbabilityUnit == 24

RECURSIVE SumOf(_, _)
\* sum(f[field] for f in rows)
SumOf(rows, field) ==
    IF rows = <<>> THEN 0 ELSE Head(rows)[field] + SumOf(Tail(rows), field)

\* fadu_data.py:28-36  the rows with their probability
WithProbability(rows) ==
    [i \in DOMAIN rows |->
        [id |-> rows[i].id, pfh |-> rows[i].pfh, count |-> rows[i].count,
         probability |-> (rows[i].count * ProbabilityUnit) \div SumOf(rows, "count")]]

\* fadu_data.py:23-46  calculate_probabilities
calculate_probabilities ==
    [standard |-> WithProbability(STANDARD_FADUS),
     sacrifice |-> WithProbability(SACRIFICE_FADUS)]

\* draw_card returned None
NoDraw == [id |-> "None", pfh |-> 0, type |-> "None"]

\* fadu_logic.py:36-42  the dict returned for a card
DrawnCard(card, card_type) == [id |-> card.id, pfh |-> card.pfh, type |-> card_type]

\* fadu_logic.py:31-34  cumulative after the i-th card of the loop
Cumulative(pool, i) == SumOf(SubSeq(pool, 1, i), "probability")

\* fadu_logic.py:35  the test that ends the loop at a card
Chosen(rand, cumulative) == rand < cumulative

\* fadu_logic.py:33-43  the loop over the pool
DrawFrom(pool, card_type, rand) ==
    IF \E i \in DOMAIN pool : Chosen(rand, Cumulative(pool, i))
    THEN DrawnCard(pool[CHOOSE i \in DOMAIN pool :
                          /\ Chosen(rand, Cumulative(pool, i))
                          /\ \A j \in 1..(i - 1) :
                                ~Chosen(rand, Cumulative(pool, j))],
                   card_type)
    ELSE NoDraw

\* fadu_logic.py:10-43  FaduService.draw_card; rand is what
\* random.uniform(0, total) returned
fadu_draw_card(probabilities, card_type, rand) ==
    IF card_type \notin {"standard", "sacrifice"} THEN NoDraw
    ELSE IF probabilities[card_type] = <<>> THEN NoDraw
    ELSE IF SumOf(probabilities[card_type], "probability") <= 0 THEN NoDraw
    ELSE DrawFrom(probabilities[card_type], card_type, rand)

\* the kinds asked for, and the values of random.uniform(0, total): a <= N <= b
CardTypes == {"standard", "sacrifice", "bonus", "STANDARD"}
RandomValues == 0..ProbabilityUnit

DrawCalls == [fn : {"draw_card"}, card_type : CardTypes, rand : RandomValues]

FaduDrawCard ==
    /\ sl_call.fn = "draw_card"
    /\ ~sl_result.done
    /\ sl_result' =
           [done |-> TRUE,
            ret |-> fadu_draw_card(calculate_probabilities, sl_call.card_type,
                                   sl_call.rand)]
    /\ UNCHANGED sl_call
    /\ UNCHANGED not_svars

FaduInit ==
    /\ QInit /\ GIdle /\ HInit /\ RInit /\ CIdle
    /\ sl_call \in DrawCalls
    /\ sl_result = Pending
FaduNext == FaduDrawCard
FaduSpec == FaduInit /\ [][FaduNext]_vars

(***************************************************************************)
(* Claims about the matchmaking queue                                      *)
(***************************************************************************)
GamePlayers(g) == {g.player1_id, g.player2_id}

\* C1: every pairing joins two distinct participants, and no participant is
\* a member of two matched pairs (two incomplete games) at the same time.
C1_NoDoublePairing ==
    /\ \A i \in 1..Len(games) : games[i].player1_id # games[i].player2_id
    /\ \A i, j \in 1..Len(games) :
          (i # j /\ ~games[i].is_completed /\ ~games[j].is_completed)
              => GamePlayers(games[i]) \cap GamePlayers(games[j]) = {}

\* C2: each participant id appears in at most one entry of matchmaking_queue.
C2_QueueUnique ==
    \A i, j \in 1..Len(matchmaking_queue) :
        matchmaking_queue[i].pid = matchmaking_queue[j].pid => i = j

\* C2 witness: a join for a queued id has just been answered already_in_queue
\* while that id holds its entry.
C2_Witness ==
    /\ \E w \in Channels : <<w, "already_in_queue">> \in sent
    /\ Len(matchmaking_queue) >= 1

\* the ids of the (at most two) earliest-joined entries of the queue
TwoEarliest ==
    {join_order[i] : i \in {k \in 1..Len(join_order) : k <= 2}}

\* C3: whenever a pairing is made, the two paired participants are the two
\* earliest-joined entries then in the queue (strict FIFO).
C3_Fifo ==
    [][games' # games =>
          GamePlayers(games'[Len(games')]) = TwoEarliest]_vars

\* C3 witness: A, B, C joined in that order, the pairing has just been made
\* as (A, B) and C is still waiting.
C3_Witness ==
    /\ Len(games) = 1
    /\ games[1].player1_id = 1 /\ games[1].player2_id = 2
    /\ \E w \in Channels : <<w, "match_found">> \in sent
    /\ Len(matchmaking_queue) = 1
    /\ matchmaking_queue[1].pid = 3
    /\ join_order = <<3>>
    /\ joins = 3

(***************************************************************************)
(* Claims about the game session                                           *)
(***************************************************************************)
PhaseStep(from, to) ==
    <<from, to>> \in {<<"draw", "strategy">>, <<"strategy", "sacrifice">>,
                      <<"sacrifice", "results">>, <<"results", "draw">>}

BothSupplied(g) ==
    \/ g.current_phase = "draw" /\ \A p \in PlayerTypes : g.card[p] # NoCard
    \/ g.current_phase = "strategy" /\ \A p \in PlayerTypes : g.strategy[p] # "None"
    \/ g.current_phase = "sacrifice" /\ \A p \in PlayerTypes : g.sacrifice[p] # "None"

\* C5: the phase leaves draw, strategy or sacrifice only if both players have
\* supplied that phase's input; a next-phase request made without them is
\* rejected and changes nothing.
C5_BothInputsNeeded ==
    [][game.current_phase \in {"draw", "strategy", "sacrifice"} =>
          /\ game'.current_phase # game.current_phase => BothSupplied(game)
          /\ (response'.op = "next_phase" /\ ~BothSupplied(game))
                => /\ response'.status >= 400
                   /\ game' = game
                   /\ current_pfh' = current_pfh
                   /\ turn_results' = turn_results]_vars

\* C5 witness: a next-phase request has moved the session out of draw with
\* both cards drawn.
C5_Witness ==
    /\ response.op = "next_phase" /\ response.status = 200
    /\ game.current_phase = "strategy"
    /\ \A p \in PlayerTypes : game.card[p] # NoCard /\ game.strategy[p] = "None"

\* the request just answered is the required input of the current phase, made
\* by a player of an open session who has not supplied it yet
RequiredInput(g, r) ==
    /\ r.user \in PlayerTypes
    /\ ~g.is_completed
    /\ \/ r.op = "draw" /\ g.current_phase = "draw" /\ g.card[r.user] = NoCard
       \/ r.op = "strategy" /\ g.current_phase = "strategy"
              /\ g.strategy[r.user] = "None"
       \/ r.op = "sacrifice" /\ g.current_phase = "sacrifice"
              /\ g.sacrifice[r.user] = "None"

\* C6: in draw, strategy and sacrifice the required input is accepted from
\* either player whether or not the other player has submitted yet (it is
\* refused only for lack of a card to draw or of PFH to sacrifice).
C6_EitherOrder ==
    [][RequiredInput(game, response')
          => response'.detail \in {"ok", "no_card", "insufficient_pfh"}]_vars

PerTurnCleared(g) ==
    \A p \in PlayerTypes :
        /\ g.card[p] = NoCard /\ g.sacrifice_card[p] = NoCard
        /\ g.strategy[p] = "None" /\ g.sacrifice[p] = "None"

VictoryFired(g, pfh) ==
    check_victory_conditions(pfh["player1"], pfh["player2"], 0, 0,
                             g.current_turn)[1]

\* C7: in results one next-phase request of either player advances; below
\* the turn limit and without a victory the session returns to draw with the
\* turn counter incremented and the per-turn fields cleared.
C7_ResultsAdvance ==
    [][(/\ response'.op = "next_phase" /\ response'.user \in PlayerTypes
        /\ game.current_phase = "results" /\ ~game.is_completed
        /\ game.current_turn < game.max_turns
        /\ ~VictoryFired(game, current_pfh))
          => /\ response'.status = 200
             /\ game'.current_phase = "draw"
             /\ game'.current_turn = game.current_turn + 1
             /\ PerTurnCleared(game')]_vars

WinnerName(w) == IF w = 1 THEN "player1" ELSE IF w = 2 THEN "player2" ELSE "draw"

\* C8: when a victory condition has fired, the next transition out of
\* results completes the session with the winner (or draw) of the victory
\* check.
C8_VictoryCompletes ==
    [][(/\ response'.op = "next_phase" /\ response'.user \in PlayerTypes
        /\ game.current_phase = "results" /\ ~game.is_completed
        /\ VictoryFired(game, current_pfh))
          => /\ game'.is_completed
             /\ game'.winner = WinnerName(
                    check_victory_conditions(current_pfh["player1"],
                        current_pfh["player2"], 0, 0, game.current_turn)[2])]_vars

\* C9: once a session is completed every draw, strategy, sacrifice and
\* next-phase request is rejected and no field of the session changes.
C9_CompletedImmutable ==
    [][game.is_completed =>
          /\ game' = game
          /\ current_pfh' = current_pfh
          /\ turn_results' = turn_results
          /\ response'.status >= 400]_vars

\* C9 witness: a player's request on a completed session has been rejected
\* as completed.
C9_Witness ==
    /\ game.is_completed
    /\ response.user \in PlayerTypes
    /\ response.detail = "completed"
    /\ response.op \in {"draw", "strategy", "sacrifice", "next_phase"}

GainsReturned == sl_call.fn = "calculate_gains" /\ sl_result.done
VictoryReturned == sl_call.fn = "check_victory_conditions" /\ sl_result.done
TurnReturned == sl_call.fn = "calculate_turn_results" /\ sl_result.done

\* C11: for all nine strategy pairs, all non-negative X and Y and every
\* combination of the two sacrifice flags, both components returned by
\* calculate_gains are greater than or equal to zero.
C11_GainsNonNegative ==
    GainsReturned => sl_result.ret[1] >= 0 /\ sl_result.ret[2] >= 0

\* C11 witness: player 1 sacrificed with X = 0, so the cost exceeds the
\* formula's value, and the call returned 0 for that player.
C11_Witness ==
    /\ GainsReturned
    /\ sl_call.sacrifice1 /\ sl_result.X = 0
    /\ sl_result.ret[1] = 0

\* the integer part, toward zero, of the rational num/den (den > 0)
TruncDiv(num, den) == IF num >= 0 THEN num \div den ELSE -((-num) \div den)

\* the nine formulas of the payoff matrix on the coefficients a..f (in
\* tenths), as rational numbers truncated toward zero
FormulaGains(s1, s2, X, Y) ==
    LET IXY == IF X > Y THEN 1 ELSE 0
        IYX == IF Y > X THEN 1 ELSE 0
    IN  IF s1 = "V" /\ s2 = "V"
        THEN <<TruncDiv((10 - COEF_A) * X + COEF_B * Y, 10),
               TruncDiv(COEF_A * X + (10 - COEF_B) * Y, 10)>>
        ELSE IF s1 = "V" /\ s2 = "C"
        THEN <<TruncDiv(100 * X + (10 - COEF_F) * COEF_C * (X + Y), 100),
               TruncDiv(100 * Y + COEF_F * COEF_C * (X + Y), 100)>>
        ELSE IF s1 = "V" /\ s2 = "G"
        THEN <<TruncDiv((10 - COEF_E) * X, 10),
               TruncDiv(10 * Y + COEF_E * X, 10)>>
        ELSE IF s1 = "C" /\ s2 = "V"
        THEN <<TruncDiv(100 * X + COEF_F * COEF_C * (X + Y), 100),
               TruncDiv(100 * Y + (10 - COEF_F) * COEF_C * (X + Y), 100)>>
        ELSE IF s1 = "C" /\ s2 = "C"
        THEN <<TruncDiv((10 + COEF_C) * X, 10),
               TruncDiv((10 + COEF_C) * Y, 10)>>
        ELSE IF s1 = "C" /\ s2 = "G"
        THEN <<TruncDiv((10 - COEF_E) * (10 + COEF_C) * X, 100),
               TruncDiv((10 + COEF_C) * (10 * Y + COEF_E * X), 100)>>
        ELSE IF s1 = "G" /\ s2 = "V"
        THEN <<TruncDiv(10 * X + COEF_E * Y, 10),
               TruncDiv((10 - COEF_E) * Y, 10)>>
        ELSE IF s1 = "G" /\ s2 = "C"
        THEN <<TruncDiv((10 + COEF_C) * (10 * X + COEF_E * Y), 100),
               TruncDiv((10 - COEF_E) * (10 + COEF_C) * Y, 100)>>
        ELSE <<TruncDiv((10 - COEF_D) * X + COEF_E * Y * IXY - COEF_E * X * IYX, 10),
               TruncDiv((10 - COEF_D) * Y + COEF_E * X * IYX - COEF_E * Y * IXY, 10)>>

\* C12: calculate_gains returns, for each player, the strategy pair's formula
\* on (X, Y) truncated toward zero, minus the sacrifice cost (14) iff that
\* player sacrificed, clamped at zero; (Cooperation, Cooperation) with
\* X = Y = 100 and no sacrifice gives (120, 120).
C12_FormulaTruncated ==
    GainsReturned =>
        LET formula == FormulaGains(sl_call.strategy1, sl_call.strategy2,
                                    sl_result.X, sl_result.Y)
            cost1 == IF sl_call.sacrifice1 THEN 14 ELSE 0
            cost2 == IF sl_call.sacrifice2 THEN 14 ELSE 0
        IN  /\ sl_result.ret = <<Max(formula[1] - cost1, 0),
                                 Max(formula[2] - cost2, 0)>>
            /\ (/\ sl_call.strategy1 = "C" /\ sl_call.strategy2 = "C"
                /\ sl_result.X = 100 /\ sl_result.Y = 100
                /\ ~sl_call.sacrifice1 /\ ~sl_call.sacrifice2)
                  => sl_result.ret = <<120, 120>>

\* C13: check_victory_conditions applies only the first matching condition:
\* a loss streak at the threshold makes the opponent win whatever the PFH
\* and the turn; else a PFH at the win threshold makes that player win even
\* at the turn limit; else at the turn limit the higher PFH wins and equal
\* PFH is a draw without winner; else the game has not ended.
C13_VictoryPriority ==
    VictoryReturned =>
        LET c == sl_call
            ended == sl_result.ret[1]
            winner == sl_result.ret[2]
            streak == c.player1_loss_streak >= 3 \/ c.player2_loss_streak >= 3
            reached == c.player1_pfh >= 280 \/ c.player2_pfh >= 280
            limit == c.current_turn >= 20
        IN  /\ streak =>
                 /\ ended
                 /\ \/ winner = 2 /\ c.player1_loss_streak >= 3
                    \/ winner = 1 /\ c.player2_loss_streak >= 3
            /\ (~streak /\ reached) =>
                 /\ ended
                 /\ \/ winner = 1 /\ c.player1_pfh >= 280
                    \/ winner = 2 /\ c.player2_pfh >= 280
            /\ (~streak /\ ~reached /\ limit) =>
                 /\ ended
                 /\ winner = IF c.player1_pfh > c.player2_pfh THEN 1
                             ELSE IF c.player2_pfh > c.player1_pfh THEN 2
                             ELSE 0
            /\ (~streak /\ ~reached /\ ~limit) => (~ended /\ winner = 0)

\* C13 witness: player 1's streak is at the threshold while player 1's PFH
\* is at the win threshold and the turn limit is reached; player 2 won.
C13_Witness ==
    /\ VictoryReturned
    /\ sl_call.player1_loss_streak >= 3 /\ sl_call.player2_loss_streak < 3
    /\ sl_call.player1_pfh >= 280 /\ sl_call.current_turn >= 20
    /\ sl_result.ret = <<TRUE, 2>>

\* C14: the effective value X (Y) fed to the payoff matrix in a battle is the
\* player's current PFH, replaced by the sacrifice card's value only if that
\* player made a sacrifice that turn.
C14_EffectiveValue ==
    TurnReturned =>
        LET r == sl_result.ret
        IN  /\ r.X = IF r.player1_sacrifice THEN r.player1_sacrifice_fadu.pfh
                     ELSE sl_call.game_data.player1_pfh
            /\ r.Y = IF r.player2_sacrifice THEN r.player2_sacrifice_fadu.pfh
                     ELSE sl_call.game_data.player2_pfh

(***************************************************************************)
(* Claims about failed pairings, disconnects and joins                     *)
(***************************************************************************)
\* the step is the pairing attempt of a join handler (it leaves the await of
\* websocket.py:429 and runs try_match_players), two entries are popped and
\* create_new_game raises
FailedPairing ==
    /\ Len(matchmaking_queue) >= 2
    /\ games' = games
    /\ \E w \in Channels : chan[w] = "matching" /\ chan'[w] = "open"

\* C15: when session creation fails during a pairing attempt, both popped
\* participants are reinserted at the front of matchmaking_queue, ahead of all
\* other entries and in their original relative order (the earlier joiner
\* first), so neither is dropped from future pairing.
C15_ReinsertedInOrder ==
    [][FailedPairing =>
          /\ matchmaking_queue' =
                 <<matchmaking_queue[1], matchmaking_queue[2]>>
                     \o SubSeq(matchmaking_queue, 3, Len(matchmaking_queue))
          /\ players_in_queue' = players_in_queue]_vars

\* C16: when session creation fails during a pairing attempt, an error
\* message is sent to the channels of both participants of the failed pair
\* (and nothing is left for the caller of try_match_players to answer).
C16_ErrorToBoth ==
    [][FailedPairing =>
          /\ <<matchmaking_queue[1].ws, "error">> \in sent'
          /\ <<matchmaking_queue[2].ws, "error">> \in sent']_vars

\* C17: once the handler of a disconnected channel has finished, no entry of
\* matchmaking_queue refers to that (closed) channel.
C17_NoEntryOnClosedChannel ==
    \A i \in 1..Len(matchmaking_queue) :
        chan[matchmaking_queue[i].ws] # "closed"

\* C18: a participant who is a player of an incomplete game never holds an
\* entry of matchmaking_queue at the same time.
C18_NoEntryWhileInGame ==
    \A i \in 1..Len(matchmaking_queue) :
        \A k \in 1..Len(games) :
            ~games[k].is_completed =>
                matchmaking_queue[i].pid \notin GamePlayers(games[k])

\* the answers of the join_queue handler
JoinAnswers == {"joined", "already_in_queue", "error"}

\* C19: a join for an id that is already queued is answered already_in_queue
\* and leaves the entry list, the in-queue set and the metadata unchanged,
\* with no pairing attempt; a join for a participant that is not queued
\* appends one entry at the back, and the pairing attempt is the next thing
\* its handler does.
C19_JoinRejectedOrAppended ==
    [][\A w \in Channels :
          /\ (chan[w] = "open" /\ sent' = {<<w, "already_in_queue">>}) =>
                /\ matchmaking_queue' = matchmaking_queue
                /\ players_in_queue' = players_in_queue
                /\ queue_metadata' = queue_metadata
                /\ games' = games
                /\ chan'[w] = "open"
          /\ (chan[w] = "open" /\ sent' = {<<w, "joined">>}) =>
                /\ Len(matchmaking_queue') = Len(matchmaking_queue) + 1
                /\ SubSeq(matchmaking_queue', 1, Len(matchmaking_queue))
                       = matchmaking_queue
                /\ matchmaking_queue'[Len(matchmaking_queue')].ws = w
                /\ matchmaking_queue'[Len(matchmaking_queue')].pid
                       \notin players_in_queue
                /\ players_in_queue' = players_in_queue
                       \cup {matchmaking_queue'[Len(matchmaking_queue')].pid}
                /\ chan'[w] = "matching"
          /\ (/\ chan[w] = "open"
              /\ chan_player[w] # NoPlayer
              /\ \E s \in JoinAnswers : sent' = {<<w, s>>}) =>
                sent' = {<<w, IF chan_player[w] \in players_in_queue
                              THEN "already_in_queue" ELSE "joined">>}
          /\ (chan[w] = "matching" /\ chan'[w] # "matching") =>
                /\ chan'[w] = "open"
                /\ Len(matchmaking_queue) >= 2 =>
                       (games' # games \/ matchmaking_queue' # matchmaking_queue)
      ]_vars

\* C19 witness: a player joined, the pairing attempt found nobody else, and
\* the player's second join has just been answered already_in_queue: the one
\* entry is still the only one and the channel is back to reading messages.
C19_Witness ==
    \E w \in Channels :
        /\ sent = {<<w, "already_in_queue">>}
        /\ chan[w] = "open"
        /\ joins = 1
        /\ Len(matchmaking_queue) = 1
        /\ matchmaking_queue[1].ws = w
        /\ players_in_queue = {matchmaking_queue[1].pid}

(***************************************************************************)
(* Claims about the HTTP matchmaking endpoints                             *)
(***************************************************************************)
\* the request is a join that found a waiting opponent with a players row
\* and could not create the game
FailedHttpMatch ==
    /\ http_response'.op = "join"
    /\ http_response'.status = "error_500"
    /\ Len(http_matchmaking_queue) >= 1
    /\ Head(http_matchmaking_queue) \in player_rows
    /\ http_matchmaking_queue' # http_matchmaking_queue

\* C20: if creating the game for a found match fails, the waiting opponent
\* popped from the queue is not dropped: after the failed request it is
\* still in matchmaking_queue, to be paired by a later join.
C20_OpponentNotDropped ==
    [][FailedHttpMatch =>
          Head(http_matchmaking_queue) \in ListIds(http_matchmaking_queue')
      ]_vars

(***************************************************************************)
(* Claims about interleaved matchmaking handlers                           *)
(***************************************************************************)
\* the entry of participant pid in queue q
EntryOf(q, pid) == CHOOSE e \in {q[i] : i \in 1..Len(q)} : e.pid = pid

\* C21: whatever the interleaving of join, leave and disconnect handlers,
\* both members of every pairing hold a queue entry at the moment of the
\* pairing, and neither of them has left or disconnected before it.
C21_PairedAreQueued ==
    [][games' # games =>
          \A pid \in GamePlayers(games'[Len(games')]) :
              /\ pid \in QueueIds(matchmaking_queue)
              /\ pid \in players_in_queue
              /\ chan[EntryOf(matchmaking_queue, pid).ws] # "closed"]_vars

(***************************************************************************)
(* Claims about the connection registry                                    *)
(***************************************************************************)
\* the channels a collection of the manager refers to
PlayerChannels(m) == {m.player_connections[i] : i \in DOMAIN m.player_connections}
GameChannels(m) == UNION {m.game_connections[g] : g \in DOMAIN m.game_connections}
Registered(m, websocket) ==
    \/ websocket \in PlayerChannels(m)
    \/ websocket \in GameChannels(m)
    \/ websocket \in m.matchmaking_connections
    \/ websocket \in DOMAIN m.connection_metadata

\* C22: on every state of the registry, disconnect called twice on a channel
\* leaves what disconnect called once leaves, and disconnect on a channel
\* that is not registered leaves the registry as it is.
C22_DisconnectIdempotent ==
    \A websocket \in Sockets :
        /\ mgr_disconnect(mgr_disconnect(websocket_manager, websocket), websocket)
               = mgr_disconnect(websocket_manager, websocket)
        /\ ~Registered(websocket_manager, websocket) =>
               mgr_disconnect(websocket_manager, websocket) = websocket_manager

\* C22 witness: a handler has just run disconnect on its channel, which had
\* been registered, while another channel is still registered.
C22_Witness ==
    /\ mgr_call.fn = "disconnect"
    /\ handler[mgr_call.websocket] = "done"
    /\ transport[mgr_call.websocket] = "closed"
    /\ ~Registered(websocket_manager, mgr_call.websocket)
    /\ \E other \in Sockets : other \in websocket_manager.matchmaking_connections
    /\ \E game_id \in RegistryIds : game_id \in DOMAIN websocket_manager.game_connections

C24_PlayerSuperseded ==
    [][\A websocket \in Sockets :
          (/\ mgr_call'.fn = "connect"
           /\ mgr_call'.websocket = websocket
           /\ MetadataOf(websocket_manager', websocket).type = "player") =>
              \A former \in Sockets \ {websocket} :
                  (/\ MetadataOf(websocket_manager, former).type = "player"
                   /\ MetadataOf(websocket_manager, former).identifier
                          = MetadataOf(websocket_manager', websocket).identifier) =>
                      /\ websocket_manager'.player_connections[
                             MetadataOf(websocket_manager', websocket).identifier]
                                 = websocket
                      /\ transport'[former] = "closed"
                      /\ ~Registered(websocket_manager', former)]_vars

\* C25: a delivery that fails because the channel is closed does not raise:
\* send_personal_message and send_to_player return False, send_to_game
\* returns the number of channels that received the message, and every
\* channel whose delivery failed is unregistered when the call returns.
C25_FailedDeliveryUnregisters ==
    [][/\ mgr_call'.fn = "send_personal_message" =>
            /\ mgr_call'.ret = (transport[mgr_call'.arg] = "open")
            /\ transport[mgr_call'.arg] = "closed" =>
                   ~Registered(websocket_manager', mgr_call'.arg)
       /\ mgr_call'.fn = "send_to_player" =>
            IF mgr_call'.arg \in DOMAIN websocket_manager.player_connections
            THEN LET websocket ==
                         websocket_manager.player_connections[mgr_call'.arg]
                 IN  /\ mgr_call'.ret = (transport[websocket] = "open")
                     /\ transport[websocket] = "closed" =>
                            ~Registered(websocket_manager', websocket)
            ELSE mgr_call'.ret = FALSE
       /\ mgr_call'.fn = "send_to_game" =>
            LET group == GameGroup(websocket_manager, mgr_call'.arg)
            IN  /\ mgr_call'.ret =
                       Cardinality({w \in group : transport[w] = "open"})
                /\ \A w \in group :
                       transport[w] = "closed" =>
                           ~Registered(websocket_manager', w)]_vars

\* C25 witness: a message has just been sent to a game's group of two
\* channels; one received it and is still in the group, the other had been
\* closed by its client and is unregistered although its handler still runs.
C25_Witness ==
    /\ mgr_call.fn = "send_to_game"
    /\ mgr_call.ret = 1
    /\ Cardinality(GameGroup(websocket_manager, mgr_call.arg)) = 1
    /\ \E w \in Sockets :
          /\ handler[w] = "running"
          /\ transport[w] = "closed"
          /\ ~Registered(websocket_manager, w)

\* C26: once the endpoint handler of a channel has terminated, whatever the
\* exit path (validation failure, the client's close, an error), no registry
\* entry references the channel.
C26_TerminatedUnregistered ==
    \A websocket \in Sockets :
        handler[websocket] = "done" => ~Registered(websocket_manager, websocket)

\* C26 witness: one handler returned on its validation failure, another left
\* its receive loop after the client closed, and a third is still registered.
C26_Witness ==
    /\ \E w \in Sockets : handler[w] = "done" /\ mgr_call = [fn |-> "disconnect", websocket |-> w]
    /\ Cardinality({w \in Sockets : handler[w] = "done"}) = 2
    /\ \E w \in Sockets :
          handler[w] = "running" /\ Registered(websocket_manager, w)

(***************************************************************************)
(* Claims about what the game's channel group is sent                      *)
(***************************************************************************)
\* C30: a player's private information (own card, own strategy) is never
\* broadcast to the channel group of the game, only delivered to that player:
\* no message sent to the group carries a strategy, and none that carries
\* one reaches a channel other than the submitting player's.
C30_PrivateNotBroadcast ==
    [][mgr_call'.fn = "process_turn_action" =>
          \/ mgr_call'.message.strategy \notin Strategies
          \/ mgr_call'.group \subseteq {mgr_call'.websocket}]_vars

(***************************************************************************)
(* Claims about rejected game actions                                      *)
(***************************************************************************)
\* the last request was rejected and wrote nothing
RejectedUnchanged ==
    /\ response'.status \in {400, 403, 404}
    /\ UNCHANGED <<game, current_pfh, turn_results>>

AwaitsDecision(u) ==
    /\ ~game.is_completed
    /\ game.current_player = u
    /\ game.current_phase = "sacrifice"
    /\ game.sacrifice[u] = "None"

\* C28: a decision to sacrifice by a player whose PFH is below the cost is
\* rejected as insufficient and changes neither the PFH nor the stored
\* decision; with PFH at least the cost the decision is accepted; a decision
\* already recorded in the turn is not replaced.
C28_SacrificeNeedsPfh ==
    [][\A u \in PlayerTypes :
          (response'.op = "sacrifice" /\ response'.user = u) =>
              /\ (AwaitsDecision(u) /\ current_pfh[u] >= SACRIFICE_COST) =>
                     /\ response'.status = 200
                     /\ game'.sacrifice[u] \in {"True", "False"}
              /\ (AwaitsDecision(u) /\ current_pfh[u] < SACRIFICE_COST) =>
                     \/ /\ response'.status = 200
                        /\ game'.sacrifice[u] = "False"
                     \/ /\ response'.detail = "insufficient_pfh"
                        /\ RejectedUnchanged
              /\ game.sacrifice[u] # "None" => RejectedUnchanged
              /\ current_pfh' = current_pfh]_vars

\* C28 witness: a player with PFH below the cost has just been refused the
\* sacrifice and has no decision stored.
C28_Witness ==
    \E u \in PlayerTypes :
        /\ response = Resp("sacrifice", u, 400, "insufficient_pfh")
        /\ current_pfh[u] < SACRIFICE_COST
        /\ game.sacrifice[u] = "None"
        /\ game.current_phase = "sacrifice"

\* the phase in which a request is served
PhaseOf(op) ==
    IF op \in {"draw", "draw_sacrifice"} THEN "draw"
    ELSE IF op = "strategy" THEN "strategy" ELSE "sacrifice"

\* C29: a draw, strategy or sacrifice action submitted in the wrong phase, by
\* a user who is not a player of the session, or on a completed session is
\* rejected with an error and leaves the session unchanged.
C29_OutOfTurnRejected ==
    [][response'.op \in {"draw", "draw_sacrifice", "strategy", "sacrifice"} =>
          ((\/ game.is_completed
            \/ response'.user \notin PlayerTypes
            \/ game.current_phase # PhaseOf(response'.op)) =>
               /\ response'.status \in {400, 403}
               /\ response'.detail # "ok"
               /\ UNCHANGED <<game, current_pfh, turn_results>>)]_vars

\* C29 witness: a strategy has just been refused because the session is
\* still in its draw phase.
C29_Witness ==
    /\ response.op = "strategy"
    /\ response.user \in PlayerTypes
    /\ response.detail = "wrong_phase"
    /\ response.status = 400
    /\ game.current_phase = "draw"
    /\ ~game.is_completed

(***************************************************************************)
(* Claims about next-phase requests of the two players served at once      *)
(***************************************************************************)
\* the battle of turn t has been resolved: its record is stored
Resolved(results, t) ==
    \E i \in 1..Len(results) : results[i].turn_number = t

BattleResolved ==
    \E u \in PlayerTypes :
        /\ loaded[u] # NoRequest
        /\ loaded'[u] = NoRequest
        /\ loaded[u].row.current_phase = "sacrifice"
        /\ response' = Resp("next_phase", u, 200, "ok")

UnknownAnswered(call, websocket) ==
    /\ call.fn = "send_personal_message"
    /\ call.arg = websocket
    /\ "message" \in DOMAIN call

\* C33: a message of unknown type on a player, game or matchmaking channel
\* is answered on that same channel with an error naming the type, changes
\* neither the registry nor the queue, and leaves the channel open, its
\* handler running and its registration in place.
C33_UnknownTypeAnswered ==
    [][\A websocket \in Sockets :
          UnknownAnswered(mgr_call', websocket) =>
              /\ mgr_call'.ret
              /\ mgr_call'.message.type = "error"
              /\ mgr_call'.message.unknown \notin
                     KnownTypes(MetadataOf(websocket_manager, websocket).type)
              /\ websocket_manager' = websocket_manager
              /\ UNCHANGED <<matchmaking_queue, players_in_queue, queue_metadata>>
              /\ transport'[websocket] = "open"
              /\ handler'[websocket] = "running"
              /\ websocket \in DOMAIN websocket_manager'.connection_metadata]_vars

\* C33 witness: a game channel has just been told that the type of its
\* message is unknown; it is still in the group of its game, with another
\* channel, and a matchmaking channel is registered too.
C33_Witness ==
    /\ UnknownAnswered(mgr_call, mgr_call.arg)
    /\ mgr_call.message.unknown = "bogus"
    /\ MetadataOf(websocket_manager, mgr_call.arg).type = "game"
    /\ Cardinality(GameGroup(websocket_manager,
           MetadataOf(websocket_manager, mgr_call.arg).identifier)) = 2
    /\ websocket_manager.matchmaking_connections # {}
    /\ handler[mgr_call.arg] = "running"

(***************************************************************************)
(* Claims about the progress of a session                                  *)
(***************************************************************************)
\* C34: no reachable state of a session that is not completed is a
\* deadlock: some request of a player changes the session, so that players
\* who keep supplying the inputs of each phase and asking for the next phase
\* bring the session to results and in the end to completed; the turn
\* counter never exceeds the maximum.
C34_NoDeadlock ==
    /\ game.current_turn <= game.max_turns
    /\ ~game.is_completed =>
           ENABLED <<GameNext>>_<<game, current_pfh, turn_results>>

(***************************************************************************)
(* Claims about the maps of the connection registry                        *)
(***************************************************************************)
\* channel w1 is registered for player i and has been superseded there
Superseded(m, w1, i) ==
    /\ MetadataOf(m, w1) = [type |-> "player", identifier |-> i]
    /\ i \in DOMAIN m.player_connections
    /\ m.player_connections[i] # w1

\* C35: when a player's channel w1 has been superseded by a newer channel
\* w2 registered under the same id, a disconnect of w1 does not remove the
\* registration of w2: player_connections still maps the id to w2.
C35_SupersededDisconnectKeeps ==
    [][\A w1 \in Sockets, i \in RegistryIds :
          (/\ Superseded(websocket_manager, w1, i)
           /\ w1 \notin DOMAIN websocket_manager'.connection_metadata) =>
              /\ i \in DOMAIN websocket_manager'.player_connections
              /\ websocket_manager'.player_connections[i]
                     = websocket_manager.player_connections[i]]_vars

\* C36: in every state of the registry the forward maps and the reverse map
\* agree: a channel is held in player_connections, game_connections or
\* matchmaking_connections under a key exactly when connection_metadata
\* records that type and identifier for it, and game_connections holds no
\* empty bucket.
C36_MapsAgree ==
    /\ \A w \in Sockets :
          /\ \A i \in RegistryIds :
                 (/\ i \in DOMAIN websocket_manager.player_connections
                  /\ websocket_manager.player_connections[i] = w)
                     <=> MetadataOf(websocket_manager, w)
                             = [type |-> "player", identifier |-> i]
          /\ \A g \in RegistryIds :
                 w \in GameGroup(websocket_manager, g)
                     <=> MetadataOf(websocket_manager, w)
                             = [type |-> "game", identifier |-> g]
          /\ w \in websocket_manager.matchmaking_connections
                 <=> MetadataOf(websocket_manager, w).type = "matchmaking"
    /\ \A g \in DOMAIN websocket_manager.game_connections :
          websocket_manager.game_connections[g] # {}

(***************************************************************************)
(* Claims about the tracking structures of the matchmaking queue           *)
(***************************************************************************)
\* C37: in every state of the matchmaking queue, also after a failed
\* pairing, players_in_queue and the key set of queue_metadata both equal
\* the set of player ids that have an entry in matchmaking_queue.
C37_TrackingAgrees ==
    /\ players_in_queue = QueueIds(matchmaking_queue)
    /\ DOMAIN queue_metadata = QueueIds(matchmaking_queue)

(***************************************************************************)
(* Claims about the loss streak over the turns of a session                *)
(***************************************************************************)
\* the streak the claim gives a player after a battle: one more after a
\* battle that leaves the player at zero PFH, zero after any other
StreakAfter(pfh, streak) == IF pfh = 0 THEN streak + 1 ELSE 0

\* the step is the return of calculate_turn_results
TurnReturns == sl_call.fn = "calculate_turn_results" /\ ~sl_result.done /\ sl_result'.done
\* the step goes from a calculated turn to the call of the next turn
TurnFollows == TurnReturned /\ ~sl_result'.done

LeftOver(w) == <<w, "left">> \in sent'

\* the entries of the queue that the step removes
RemovedEntries ==
    {matchmaking_queue[i] : i \in {j \in 1..Len(matchmaking_queue) :
        matchmaking_queue[j].pid \notin QueueIds(matchmaking_queue')}}

\* C39: a leave_queue message removes a queue entry only if that entry was
\* created over the same channel: a channel cannot remove another
\* participant's entry from the matchmaking queue.
C39_LeaveOwnEntryOnly ==
    [][\A w \in Channels :
          LeftOver(w) => \A entry \in RemovedEntries : entry.ws = w]_vars

(***************************************************************************)
(* Claims about the card service                                           *)
(***************************************************************************)
DrawReturned == sl_call.fn = "draw_card" /\ sl_result.done

\* the table of a kind as fadu_data.py gives it, and the weight of the
\* first i rows in ProbabilityUnit-ths
TableOf(card_type) ==
    IF card_type = "standard" THEN STANDARD_FADUS ELSE SACRIFICE_FADUS
WeightUpTo(table, i) ==
    (SumOf(SubSeq(table, 1, i), "count") * ProbabilityUnit) \div SumOf(table, "count")

====
